---------------------------- MODULE Spec2Model ----------------------------
(***************************************************************************)
(* Game of Life engine (Gizardpl/Game_of_life): the board, the rule        *)
(* engine, prediction, expansion / optimisation of the board size, the     *)
(* click / drag editing state machine and the two-stage reset manager.     *)
(*                                                                         *)
(* Conventions.  A Rust Option is a sequence of length 0 (None) or 1       *)
(* (Some(v)).  A Vec is a sequence.  A Board is the record                 *)
(* [cells, width, height] of src/logic/board/structure.rs, the cell (x,y)  *)
(* being cells[y * width + x + 1] (TLA+ sequences start at 1).             *)
(***************************************************************************)
EXTENDS Integers, Sequences, FiniteSets, TLC

VARIABLES
    board,          \* the Board the operations act on (GameOfLifeApp.board)
    cfg,            \* the global GameConfig (config/manager.rs GLOBAL_CONFIG)
    reset_manager,  \* ResetManager
    drag_state,     \* CellStateManager.drag_state
    ret,            \* the last call: its name, arguments and returned value
    app,            \* the fields of the GameOfLifeApp that are not above
    hist            \* history of the calls made so far (a history variable)

vars == <<board, cfg, reset_manager, drag_state, ret, app, hist>>

-----------------------------------------------------------------------------
(* Bounds of the model *)

\* SpecLife: boards of 0..LifeMaxDim columns and rows
LifeMaxDim == 3
\* SpecLife: at most LifeMaxAlive cells of the board are Alive
LifeMaxAlive == 2
\* SpecLife: end points of the birth / survival ranges are drawn from 0..LifeMaxRule
LifeMaxRule == 1

\* SpecGrid: boards of at most GridMaxCells cells
GridMaxCells == 4

\* SpecPatterns: boards of 1..PatMaxDim columns and rows
PatMaxDim == 4
\* SpecPatterns: at most PatMaxGenerations generations are computed in a row
PatMaxGenerations == 2

\* SpecCellQuery: boards of 1..QueryMaxDim columns and rows
QueryMaxDim == 2
\* SpecCellQuery: at most QueryMaxAlive cells of the board are Alive
QueryMaxAlive == 1
\* SpecCellQuery: end points of the birth / survival ranges are drawn from
\* 0..QueryMaxRule
QueryMaxRule == 1

\* SpecResize: boards of 0..ResizeMaxDim columns and rows, resized to
\* 0..ResizeMaxDim + 1 columns and rows
ResizeMaxDim == 3
\* SpecResize: at most ResizeMaxAlive cells of the board are Alive
ResizeMaxAlive == 2
\* SpecResize: expand_by_layers is called with 0..ResizeMaxLayers layers
ResizeMaxLayers == 2

\* SpecOptimize: boards of 0..OptMaxDim columns and rows
OptMaxDim == 6
\* SpecOptimize: at most OptMaxAlive cells of the board are Alive
OptMaxAlive == 2
\* SpecOptimize: optimize_size is called with a margin of 0..OptMaxMargin
OptMaxMargin == 1

\* SpecExpand: boards of 1..ExpMaxDim columns and rows
ExpMaxDim == 3
\* SpecExpand: at most ExpMaxAlive cells of the board are Alive at the start
ExpMaxAlive == 1
\* SpecExpand: max_board_size is one of 3..ExpMaxSize
ExpMaxSize == 4
\* SpecExpand: expansion_layers is one of 1..ExpMaxLayers
ExpMaxLayers == 1
\* SpecExpand: expansion_margin is one of 0..ExpMaxMargin
ExpMaxMargin == 1

\* SpecReset: square boards of side 2..ResetMaxDim
ResetMaxDim == 4
\* SpecReset: at most ResetMaxAlive cells of the board are Alive
ResetMaxAlive == 1
\* SpecReset: initial_board_size and static_board_size are among 3..ResetMaxSize
ResetMaxSize == 4

\* SpecDrag: boards of at most DragMaxCells cells (1x1 up to 2x2 and the strips
\* of DragMaxCells cells); the pointer is over a cell of the board or one column
\* or row past its edge
DragMaxCells == 4
\* SpecDragCalls: every board of at most DragCallsMaxCells cells
DragCallsMaxCells == 3

\* SpecApp: square boards of at most AppMaxCells cells (sides 1 and 2)
AppMaxCells == 4
\* SpecApp: the user edits and fills the board up to AppMaxAlive Alive cells
AppMaxAlive == 1
\* SpecApp: the generation counter of the side panel counts up to AppMaxGenerations
AppMaxGenerations == 1

-----------------------------------------------------------------------------
(* Option, Vec *)

None == <<>>
Some(v) == <<v>>
IsSome(o) == o /= <<>>
Unwrap(o) == o[1]

Min(a, b) == IF a <= b THEN a ELSE b
Max(a, b) == IF a >= b THEN a ELSE b
\* usize::saturating_sub
saturating_sub(a, b) == IF a >= b THEN a - b ELSE 0

\* the elements of a Vec
Range(s) == {s[i] : i \in DOMAIN s}

-----------------------------------------------------------------------------
(* logic/board/structure.rs *)

Dead == "Dead"
Alive == "Alive"
CellState == {Dead, Alive}

\* Board::new
Board_new(width, height) ==
    [cells |-> [i \in 1..(width * height) |-> Dead], width |-> width, height |-> height]

\* Board::coords_to_index (0-based index, as in the code)
coords_to_index(b, x, y) ==
    IF x < b.width /\ y < b.height THEN Some(y * b.width + x) ELSE None

\* Board::index_to_coords
index_to_coords(b, index) == <<index % b.width, index \div b.width>>

\* Board::get_cell
get_cell(b, x, y) ==
    LET idx == coords_to_index(b, x, y)
    IN  IF IsSome(idx) THEN Some(b.cells[Unwrap(idx) + 1]) ELSE None

\* set_cell that reports whether the cell changed, not whether it exists
set_cell_reporting_change(b, x, y, state) ==
    LET idx == coords_to_index(b, x, y)
    IN  IF IsSome(idx)
        THEN [board |-> [b EXCEPT !.cells[Unwrap(idx) + 1] = state],
              ok |-> b.cells[Unwrap(idx) + 1] /= state]
        ELSE [board |-> b, ok |-> FALSE]

\* Board::set_cell: the board after the call and the returned bool
set_cell(b, x, y, state) ==
    LET idx == coords_to_index(b, x, y)
    IN  IF IsSome(idx)
        THEN [board |-> [b EXCEPT !.cells[Unwrap(idx) + 1] = state], ok |-> TRUE]
        ELSE [board |-> b, ok |-> FALSE]

\* toggle_cell that makes the cell Alive, whatever it was
toggle_cell_setting_alive(b, x, y) ==
    LET cur == get_cell(b, x, y)
    IN  IF IsSome(cur)
        THEN set_cell(b, x, y, Alive)
        ELSE [board |-> b, ok |-> FALSE]

\* Board::toggle_cell: the board after the call and the returned bool
toggle_cell(b, x, y) ==
    LET cur == get_cell(b, x, y)
    IN  IF IsSome(cur)
        THEN set_cell(b, x, y, IF Unwrap(cur) = Dead THEN Alive ELSE Dead)
        ELSE [board |-> b, ok |-> FALSE]

\* Board::clear
clear(b) == [b EXCEPT !.cells = [i \in DOMAIN b.cells |-> Dead]]

\* Board::iter_cells: the Vec of (x, y, state) in index order
iter_cells(b) ==
    [i \in DOMAIN b.cells |->
        LET c == index_to_coords(b, i - 1) IN <<c[1], c[2], b.cells[i]>>]

\* Board::count_alive_cells
count_alive_cells(b) == Cardinality({i \in DOMAIN b.cells : b.cells[i] = Alive})

-----------------------------------------------------------------------------
(* config/rules.rs *)

Dynamic == "Dynamic"
Static == "Static"

\* GameConfig::default (the fields the engine reads)
DefaultConfig ==
    [birth_neighbors     |-> [start |-> 3, end |-> 3],
     survival_neighbors  |-> [start |-> 2, end |-> 3],
     board_size_mode     |-> Dynamic,
     max_board_size      |-> 101,
     initial_board_size  |-> 9,
     static_board_size   |-> 21,
     expansion_margin    |-> 2,
     expansion_layers    |-> 1,
     optimization_margin |-> 3]

\* RangeInclusive::contains
range_contains(r, n) == r.start <= n /\ n <= r.end

\* GameConfig::should_birth
should_birth(c, neighbors) == range_contains(c.birth_neighbors, neighbors)

\* GameConfig::should_survive
should_survive(c, neighbors) == range_contains(c.survival_neighbors, neighbors)

\* GameConfig::can_expand
can_expand(c, current_width, current_height, layers) ==
    LET new_width  == current_width + (2 * layers)
        new_height == current_height + (2 * layers)
    IN  new_width <= c.max_board_size /\ new_height <= c.max_board_size

\* GameConfig::get_max_dimension
get_max_dimension(c, current_size, layers) ==
    LET proposed_size == current_size + (2 * layers)
    IN  Min(proposed_size, c.max_board_size)

\* GameConfig::get_current_board_size
get_current_board_size(c) ==
    IF c.board_size_mode = Dynamic THEN c.initial_board_size ELSE c.static_board_size

\* can_expand_in_current_mode without the test of the mode
can_expand_in_any_mode(c) == TRUE

\* GameConfig::can_expand_in_current_mode
can_expand_in_current_mode(c) == c.board_size_mode = Dynamic

-----------------------------------------------------------------------------
(* logic/life_cycle.rs *)

\* count_alive_neighbors with the neighbour coordinates taken modulo the size of
\* the board (a wrap-around board) instead of the bounds check
count_alive_neighbors_wrapping(b, x, y) ==
    Cardinality({d \in (-1..1) \X (-1..1) :
        /\ ~(d[1] = 0 /\ d[2] = 0)
        /\ get_cell(b, (x + d[1]) % b.width, (y + d[2]) % b.height) = Some(Alive)})

\* count_alive_neighbors that leaves out the four diagonal neighbours
count_alive_neighbors_orthogonal(b, x, y) ==
    Cardinality({d \in {<<-1, 0>>, <<1, 0>>, <<0, -1>>, <<0, 1>>} :
        /\ x + d[1] >= 0 /\ y + d[2] >= 0
        /\ x + d[1] < b.width /\ y + d[2] < b.height
        /\ get_cell(b, x + d[1], y + d[2]) = Some(Alive)})

\* Board::count_alive_neighbors: the (dx,dy) of the double loop that add 1 to count
count_alive_neighbors(b, x, y) ==
    Cardinality({d \in (-1..1) \X (-1..1) :
        /\ ~(d[1] = 0 /\ d[2] = 0)
        /\ x + d[1] >= 0 /\ y + d[2] >= 0
        /\ x + d[1] < b.width /\ y + d[2] < b.height
        /\ get_cell(b, x + d[1], y + d[2]) = Some(Alive)})

\* the new_state of the match in next_generation, for the cell (x,y)
new_state(b, c, x, y) ==
    LET cur   == get_cell(b, x, y)
        current_state   == IF IsSome(cur) THEN Unwrap(cur) ELSE Dead
        alive_neighbors == count_alive_neighbors(b, x, y)
    IN  IF current_state = Alive
        THEN (IF should_survive(c, alive_neighbors) THEN Alive ELSE Dead)
        ELSE (IF should_birth(c, alive_neighbors) THEN Alive ELSE Dead)

\* Board::next_generation: a fresh Board::new(width, height) in which the double
\* loop has written new_state at every (x, y)
next_generation(b, c) ==
    [cells  |-> [i \in 1..(b.width * b.height) |->
                    new_state(b, c, (i - 1) % b.width, (i - 1) \div b.width)],
     width  |-> b.width,
     height |-> b.height]

\* is_stable that looks at the Alive cells only (a birth goes unnoticed)
is_stable_alive_only(b, c) ==
    LET next == next_generation(b, c)
    IN  \A y \in 0..(b.height - 1) : \A x \in 0..(b.width - 1) :
            get_cell(b, x, y) = Some(Alive) => get_cell(next, x, y) = Some(Alive)

\* Board::is_stable
is_stable(b, c) ==
    LET next == next_generation(b, c)
    IN  \A y \in 0..(b.height - 1) : \A x \in 0..(b.width - 1) :
            get_cell(b, x, y) = get_cell(next, x, y)

\* Board::is_empty
is_empty(b) == \A i \in DOMAIN b.cells : b.cells[i] /= Alive

-----------------------------------------------------------------------------
(* logic/prediction.rs *)

\* the current_state of predict_next_state: get_cell(x, y).unwrap_or(Dead)
current_state_or_dead(b, x, y) ==
    LET cur == get_cell(b, x, y) IN IF IsSome(cur) THEN Unwrap(cur) ELSE Dead

\* will_be_alive with the two arms of the match exchanged
will_be_alive_swapped(b, c, x, y) ==
    LET alive_neighbors == count_alive_neighbors(b, x, y)
    IN  IF current_state_or_dead(b, x, y) = Alive
        THEN should_birth(c, alive_neighbors)
        ELSE should_survive(c, alive_neighbors)

\* the will_be_alive of the match in predict_next_state, for the cell (x,y)
will_be_alive(b, c, x, y) ==
    LET alive_neighbors == count_alive_neighbors(b, x, y)
    IN  IF current_state_or_dead(b, x, y) = Alive
        THEN should_survive(c, alive_neighbors)
        ELSE should_birth(c, alive_neighbors)

\* the coordinates of a Vec of scanned cells
Coords(s) == [j \in DOMAIN s |-> s[j].pos]

\* predict_next_state: scanned is the double loop (y outer, x inner), with what it
\* computes for each cell; the three Vecs hold the cells it pushes, in its order
predict_next_state(b, c) ==
    LET scanned ==
            [i \in 1..(b.width * b.height) |->
                LET x == (i - 1) % b.width
                    y == (i - 1) \div b.width
                IN  [pos     |-> <<x, y>>,
                     current |-> current_state_or_dead(b, x, y),
                     will    |-> will_be_alive(b, c, x, y)]]
        InNext(e)  == e.will
        InBirth(e) == e.will /\ e.current = Dead
        InDeath(e) == ~e.will /\ e.current = Alive
    IN  [next_alive_cells |-> Coords(SelectSeq(scanned, InNext)),
         birth_cells      |-> Coords(SelectSeq(scanned, InBirth)),
         death_cells      |-> Coords(SelectSeq(scanned, InDeath))]

\* will_cell_be_born: get_cell(x, y).unwrap_or(Dead), then the birth rule on
\* count_alive_neighbors(x, y); the coordinates are not tested against the bounds
will_cell_be_born(b, c, x, y) ==
    LET current_state == current_state_or_dead(b, x, y)
    IN  IF current_state /= Dead
        THEN FALSE
        ELSE should_birth(c, count_alive_neighbors(b, x, y))

\* will_cell_die
will_cell_die(b, c, x, y) ==
    LET current_state == current_state_or_dead(b, x, y)
    IN  IF current_state /= Alive
        THEN FALSE
        ELSE ~should_survive(c, count_alive_neighbors(b, x, y))

-----------------------------------------------------------------------------
(* logic/board/expansion.rs *)

\* The copy loops of expansion.rs: on a fresh Board::new(width, height),
\*     for y in ys[1]..ys[2] { for x in xs[1]..xs[2] {
\*         if let Some(cell_state) = src.get_cell(x, y) {
\*             new_board.set_cell(x + dx, y + dy, cell_state); } } }
\* (set_cell ignores a position outside the new board).  The loop writes each
\* position at most once, so the cell at (nx, ny) of the result is the one the
\* loop copied from (nx - dx, ny - dy), or Dead when the loop wrote nothing there.
copy_cells(src, xs, ys, dx, dy, width, height) ==
    [cells  |-> [i \in 1..(width * height) |->
                    LET x == ((i - 1) % width) - dx
                        y == ((i - 1) \div width) - dy
                    IN  IF /\ xs[1] <= x /\ x < xs[2]
                           /\ ys[1] <= y /\ y < ys[2]
                           /\ IsSome(get_cell(src, x, y))
                        THEN Unwrap(get_cell(src, x, y))
                        ELSE Dead],
     width  |-> width,
     height |-> height]

\* expand_by_layers with the content left in the corner (no offset)
\* expand_by_layers that answers 0 layers with a copy of the board
expand_by_layers_zero_copies(b, layers) ==
    Some(copy_cells(b, <<0, b.width>>, <<0, b.height>>, layers, layers,
                    b.width + 2 * layers, b.height + 2 * layers))

expand_by_layers_no_offset(b, layers) ==
    IF layers = 0
    THEN None
    ELSE Some(copy_cells(b, <<0, b.width>>, <<0, b.height>>, 0, 0,
                         b.width + (2 * layers), b.height + (2 * layers)))

\* Board::expand_by_layers
expand_by_layers(b, layers) ==
    IF layers = 0
    THEN None
    ELSE LET new_width  == b.width + (2 * layers)
             new_height == b.height + (2 * layers)
             offset_x   == layers
             offset_y   == layers
         IN  Some(copy_cells(b, <<0, b.width>>, <<0, b.height>>,
                             offset_x, offset_y, new_width, new_height))

\* expand_with_limits that leaves the content in the corner (no offset)
expand_with_limits_no_offset(b, target_width, target_height) ==
    IF target_width <= b.width /\ target_height <= b.height
    THEN None
    ELSE Some(copy_cells(b, <<0, b.width>>, <<0, b.height>>,
                         0, 0, target_width, target_height))

\* Board::expand_with_limits
expand_with_limits(b, target_width, target_height) ==
    IF target_width <= b.width /\ target_height <= b.height
    THEN None
    ELSE LET offset_x == saturating_sub(target_width, b.width) \div 2
             offset_y == saturating_sub(target_height, b.height) \div 2
         IN  Some(copy_cells(b, <<0, b.width>>, <<0, b.height>>,
                             offset_x, offset_y, target_width, target_height))

\* the needs_expansion of auto_expand_if_needed: some Alive cell of iter_cells lies
\* closer than margin to an edge
needs_expansion(b, margin) ==
    \E i \in DOMAIN iter_cells(b) :
        LET x     == iter_cells(b)[i][1]
            y     == iter_cells(b)[i][2]
            state == iter_cells(b)[i][3]
        IN  /\ state = Alive
            /\ \/ x < margin
               \/ x >= saturating_sub(b.width, margin)
               \/ y < margin
               \/ y >= saturating_sub(b.height, margin)

\* Board::auto_expand_if_needed
auto_expand_if_needed(b, margin, c) ==
    IF ~can_expand_in_current_mode(c)
    THEN None
    ELSE IF ~can_expand(c, b.width, b.height, c.expansion_layers)
    THEN None
    ELSE IF needs_expansion(b, margin)
    THEN LET layers        == c.expansion_layers
             max_width     == get_max_dimension(c, b.width, layers)
             max_height    == get_max_dimension(c, b.height, layers)
             target_width  == Min(b.width + 2 * layers, max_width)
             target_height == Min(b.height + 2 * layers, max_height)
         IN  IF target_width = b.width /\ target_height = b.height
             THEN None
             ELSE expand_with_limits(b, target_width, target_height)
    ELSE None

\* resize_to whose centring offset is rounded up where the board grows
resize_to_offset_rounded_up(b, new_width, new_height) ==
    LET offset_x == IF new_width > b.width THEN (new_width - b.width + 1) \div 2 ELSE 0
        offset_y == IF new_height > b.height THEN (new_height - b.height + 1) \div 2 ELSE 0
        start_x  == IF new_width < b.width THEN (b.width - new_width) \div 2 ELSE 0
        start_y  == IF new_height < b.height THEN (b.height - new_height) \div 2 ELSE 0
        end_x    == Min(start_x + new_width, b.width)
        end_y    == Min(start_y + new_height, b.height)
    IN  copy_cells(b, <<start_x, end_x>>, <<start_y, end_y>>,
                   offset_x - start_x, offset_y - start_y, new_width, new_height)

\* resize_to with the crop window starting at 0 (the content is cut from the
\* right and from the bottom instead of around the centre)
resize_to_uncentred_crop(b, new_width, new_height) ==
    LET offset_x == IF new_width > b.width THEN (new_width - b.width) \div 2 ELSE 0
        offset_y == IF new_height > b.height THEN (new_height - b.height) \div 2 ELSE 0
        end_x    == Min(new_width, b.width)
        end_y    == Min(new_height, b.height)
    IN  copy_cells(b, <<0, end_x>>, <<0, end_y>>, offset_x, offset_y,
                   new_width, new_height)

\* Board::resize_to
resize_to(b, new_width, new_height) ==
    LET offset_x == IF new_width > b.width THEN (new_width - b.width) \div 2 ELSE 0
        offset_y == IF new_height > b.height THEN (new_height - b.height) \div 2 ELSE 0
        start_x  == IF new_width < b.width THEN (b.width - new_width) \div 2 ELSE 0
        start_y  == IF new_height < b.height THEN (b.height - new_height) \div 2 ELSE 0
        end_x    == Min(start_x + new_width, b.width)
        end_y    == Min(start_y + new_height, b.height)
    IN  copy_cells(b, <<start_x, end_x>>, <<start_y, end_y>>,
                   offset_x - start_x, offset_y - start_y, new_width, new_height)

\* Board::resize_to_square
resize_to_square(b, size) == resize_to(b, size, size)

\* can_remove_outer_ring with the layers 0..margin-1 checked (an exclusive range
\* in place of 0..=margin)
can_remove_outer_ring_exclusive(b, margin) ==
    LET size == b.width
    IN  IF size <= 2 * margin + 1
        THEN FALSE
        ELSE \A layer \in 0..(margin - 1) :
                \/ layer >= size \div 2
                \/ /\ \A x \in layer..(size - layer - 1) :
                        /\ get_cell(b, x, layer) /= Some(Alive)
                        /\ get_cell(b, x, size - 1 - layer) /= Some(Alive)
                   /\ \A y \in (layer + 1)..(size - 1 - layer - 1) :
                        /\ get_cell(b, layer, y) /= Some(Alive)
                        /\ get_cell(b, size - 1 - layer, y) /= Some(Alive)

\* Board::can_remove_outer_ring
can_remove_outer_ring(b, margin) ==
    LET size == b.width
    IN  IF size <= 2 * margin + 1
        THEN FALSE
        ELSE \A layer \in 0..margin :
                \* the loop leaves at the first layer >= size / 2
                \/ \E l \in 0..layer : l >= size \div 2
                \/ /\ \A x \in layer..(size - layer - 1) :
                        /\ get_cell(b, x, layer) /= Some(Alive)
                        /\ get_cell(b, x, size - 1 - layer) /= Some(Alive)
                   /\ \A y \in (layer + 1)..(size - 1 - layer - 1) :
                        /\ get_cell(b, layer, y) /= Some(Alive)
                        /\ get_cell(b, size - 1 - layer, y) /= Some(Alive)

\* Board::remove_outer_ring
remove_outer_ring(b) ==
    LET old_size == b.width
    IN  IF old_size <= 2
        THEN b
        ELSE LET new_size == old_size - 2
             IN  copy_cells(b, <<1, old_size - 1>>, <<1, old_size - 1>>,
                            -1, -1, new_size, new_size)

\* optimize_size never returns: its loop runs for ever
Diverges == <<"loop", "never returns">>

\* the body of the loop of optimize_size run once (an if in place of the loop)
optimize_loop_single_pass(current_board, margin, was_optimized) ==
    IF can_remove_outer_ring(current_board, margin)
    THEN Some(remove_outer_ring(current_board))
    ELSE IF was_optimized THEN Some(current_board) ELSE None

\* the loop of optimize_size, entered with current_board and was_optimized.  When
\* remove_outer_ring hands back the board it was given (a board of side <= 2) and
\* the loop does not break, the next iteration starts from the same current_board
\* with was_optimized = true, and so does every later one: the loop never ends.
RECURSIVE optimize_loop(_, _, _)
optimize_loop(current_board, margin, was_optimized) ==
    IF can_remove_outer_ring(current_board, margin)
    THEN LET removed == remove_outer_ring(current_board)
         IN  IF removed.width <= 2 * margin + 1
             THEN Some(removed)
             ELSE IF removed = current_board
             THEN Diverges
             ELSE optimize_loop(removed, margin, TRUE)
    ELSE IF was_optimized THEN Some(current_board) ELSE None

\* Board::optimize_size
optimize_size(b, margin) ==
    LET current_size == Min(b.width, b.height)
    IN  IF current_size <= 2 * margin + 1
        THEN None
        ELSE optimize_loop(resize_to_square(b, current_size), margin, FALSE)

-----------------------------------------------------------------------------
(* logic/reset.rs *)

\* save_pre_start_state that leaves was_ever_started as it was
save_pre_start_state_unmarked(rm, b) ==
    [pre_start_board |-> Some(b), last_reset_was_to_pre_start |-> FALSE,
     was_ever_started |-> rm.was_ever_started]

\* ResetManager::save_pre_start_state: the manager after the call
save_pre_start_state(rm, b) ==
    [pre_start_board |-> Some(b), last_reset_was_to_pre_start |-> FALSE,
     was_ever_started |-> TRUE]

\* ResetManager::resize_board_to_target
resize_board_to_target(source_board, target_size) ==
    resize_to_square(source_board, target_size)

\* the target_size of reset_board, read from the configuration at the call
reset_target_size(c) ==
    IF c.board_size_mode = Dynamic THEN c.initial_board_size ELSE c.static_board_size

\* reset_board whose first reset hands back the snapshot as it was saved, not
\* resized to target_size
reset_board_unresized(rm, current_board, ever_started, c) ==
    LET target_size == reset_target_size(c)
    IN  IF ~ever_started
        THEN [manager |-> [rm EXCEPT !.last_reset_was_to_pre_start = FALSE],
              board |-> Board_new(target_size, target_size), flag |-> FALSE]
        ELSE IF IsSome(rm.pre_start_board) /\ ~rm.last_reset_was_to_pre_start
        THEN [manager |-> [rm EXCEPT !.last_reset_was_to_pre_start = TRUE],
              board |-> Unwrap(rm.pre_start_board), flag |-> FALSE]
        ELSE [manager |-> [pre_start_board |-> None,
                           last_reset_was_to_pre_start |-> FALSE,
                           was_ever_started |-> FALSE],
              board |-> Board_new(target_size, target_size), flag |-> TRUE]

\* reset_board whose branch for ever_started = false resets the manager as the
\* fallback branch does (the snapshot is dropped)
reset_board_dropping_snapshot(rm, current_board, ever_started, c) ==
    LET target_size == reset_target_size(c)
    IN  IF ~ever_started
        THEN [manager |-> [pre_start_board |-> None,
                           last_reset_was_to_pre_start |-> FALSE,
                           was_ever_started |-> FALSE],
              board |-> Board_new(target_size, target_size), flag |-> FALSE]
        ELSE IF IsSome(rm.pre_start_board) /\ ~rm.last_reset_was_to_pre_start
        THEN [manager |-> [rm EXCEPT !.last_reset_was_to_pre_start = TRUE],
              board |-> resize_board_to_target(Unwrap(rm.pre_start_board), target_size),
              flag |-> FALSE]
        ELSE [manager |-> [pre_start_board |-> None,
                           last_reset_was_to_pre_start |-> FALSE,
                           was_ever_started |-> FALSE],
              board |-> Board_new(target_size, target_size), flag |-> TRUE]

\* reset_board whose first reset does not record that it went to the pre-start
\* state (last_reset_was_to_pre_start stays false)
reset_board_forgetful(rm, current_board, ever_started, c) ==
    LET target_size == reset_target_size(c)
    IN  IF ~ever_started
        THEN [manager |-> [rm EXCEPT !.last_reset_was_to_pre_start = FALSE],
              board |-> Board_new(target_size, target_size), flag |-> FALSE]
        ELSE IF IsSome(rm.pre_start_board) /\ ~rm.last_reset_was_to_pre_start
        THEN [manager |-> rm,
              board |-> resize_board_to_target(Unwrap(rm.pre_start_board), target_size),
              flag |-> FALSE]
        ELSE [manager |-> [pre_start_board |-> None,
                           last_reset_was_to_pre_start |-> FALSE,
                           was_ever_started |-> FALSE],
              board |-> Board_new(target_size, target_size), flag |-> TRUE]

\* ResetManager::reset_board: the manager after the call, the board and the flag
\* it returns
reset_board(rm, current_board, ever_started, c) ==
    LET target_size == reset_target_size(c)
    IN  IF ~ever_started
        THEN [manager |-> [rm EXCEPT !.last_reset_was_to_pre_start = FALSE],
              board |-> Board_new(target_size, target_size), flag |-> FALSE]
        ELSE IF IsSome(rm.pre_start_board)
        THEN IF ~rm.last_reset_was_to_pre_start
             THEN [manager |-> [rm EXCEPT !.last_reset_was_to_pre_start = TRUE],
                   board |-> resize_board_to_target(Unwrap(rm.pre_start_board), target_size),
                   flag |-> FALSE]
             ELSE [manager |-> [pre_start_board |-> None,
                                last_reset_was_to_pre_start |-> FALSE,
                                was_ever_started |-> FALSE],
                   board |-> Board_new(target_size, target_size), flag |-> TRUE]
        ELSE [manager |-> [pre_start_board |-> None,
                           last_reset_was_to_pre_start |-> FALSE,
                           was_ever_started |-> FALSE],
              board |-> Board_new(target_size, target_size), flag |-> TRUE]

\* ResetManager::has_pre_start_state
has_pre_start_state(rm) == IsSome(rm.pre_start_board)

\* ResetManager::clear_pre_start_state: the manager after the call
clear_pre_start_state(rm) ==
    [rm EXCEPT !.pre_start_board = None, !.last_reset_was_to_pre_start = FALSE]

-----------------------------------------------------------------------------
(* logic/change_state.rs *)

CreateCell == "CreateCell"
KillCell == "KillCell"

\* DragState::start_drag
DragState_start_drag(ds, action, cell) ==
    [is_dragging |-> TRUE, drag_action |-> Some(action), last_cell |-> Some(cell)]

\* DragState::end_drag
DragState_end_drag(ds) ==
    [is_dragging |-> FALSE, drag_action |-> None, last_cell |-> None]

\* DragState::update_last_cell
update_last_cell(ds, cell) == [ds EXCEPT !.last_cell = Some(cell)]

\* DragState::is_new_cell
is_new_cell(ds, cell) ==
    IF IsSome(ds.last_cell) THEN Unwrap(ds.last_cell) /= cell ELSE TRUE

\* CellStateManager::handle_cell_click: the board after the call and the bool
handle_cell_click(b, x, y) == toggle_cell(b, x, y)

\* start_drag that reads the cell after it has flipped it
start_drag_reading_after_toggle(ds, b, x, y) ==
    IF IsSome(get_cell(b, x, y))
    THEN LET toggled       == toggle_cell(b, x, y)
             current_state == Unwrap(get_cell(toggled.board, x, y))
             drag_action   == IF current_state = Dead THEN CreateCell ELSE KillCell
         IN  [drag_state |-> DragState_start_drag(ds, drag_action, <<x, y>>),
              board |-> toggled.board, changed |-> toggled.ok]
    ELSE [drag_state |-> ds, board |-> b, changed |-> FALSE]

\* CellStateManager::start_drag: the drag state and the board after the call, and
\* the bool it returns
start_drag(ds, b, x, y) ==
    IF IsSome(get_cell(b, x, y))
    THEN LET current_state == Unwrap(get_cell(b, x, y))
             drag_action   == IF current_state = Dead THEN CreateCell ELSE KillCell
             toggled       == toggle_cell(b, x, y)
         IN  [drag_state |-> DragState_start_drag(ds, drag_action, <<x, y>>),
              board |-> toggled.board, changed |-> toggled.ok]
    ELSE [drag_state |-> ds, board |-> b, changed |-> FALSE]

\* continue_drag without the test for the cell the drag is already on
continue_drag_on_any_cell(ds, b, x, y) ==
    IF ~ds.is_dragging
    THEN [drag_state |-> ds, board |-> b, changed |-> FALSE]
    ELSE LET updated == update_last_cell(ds, <<x, y>>)
         IN  IF ~IsSome(updated.drag_action) \/ ~IsSome(get_cell(b, x, y))
             THEN [drag_state |-> updated, board |-> b, changed |-> FALSE]
             ELSE LET drag_action   == Unwrap(updated.drag_action)
                      current_state == Unwrap(get_cell(b, x, y))
                      wanted        == IF drag_action = CreateCell THEN Alive ELSE Dead
                  IN  IF current_state /= wanted
                      THEN [drag_state |-> updated,
                            board |-> set_cell(b, x, y, wanted).board,
                            changed |-> set_cell(b, x, y, wanted).ok]
                      ELSE [drag_state |-> updated, board |-> b, changed |-> FALSE]

\* continue_drag that toggles the cell under the pointer, whatever the action
continue_drag_toggling(ds, b, x, y) ==
    IF ~ds.is_dragging \/ ~is_new_cell(ds, <<x, y>>)
    THEN [drag_state |-> ds, board |-> b, changed |-> FALSE]
    ELSE LET toggled == toggle_cell(b, x, y)
         IN  [drag_state |-> update_last_cell(ds, <<x, y>>),
              board |-> toggled.board, changed |-> toggled.ok]

\* CellStateManager::continue_drag: the drag state and the board after the call,
\* and the bool it returns
continue_drag(ds, b, x, y) ==
    IF ~ds.is_dragging
    THEN [drag_state |-> ds, board |-> b, changed |-> FALSE]
    ELSE IF ~is_new_cell(ds, <<x, y>>)
    THEN [drag_state |-> ds, board |-> b, changed |-> FALSE]
    ELSE LET updated == update_last_cell(ds, <<x, y>>)
         IN  IF ~IsSome(updated.drag_action)
             THEN [drag_state |-> updated, board |-> b, changed |-> FALSE]
             ELSE IF ~IsSome(get_cell(b, x, y))
             THEN [drag_state |-> updated, board |-> b, changed |-> FALSE]
             ELSE LET drag_action   == Unwrap(updated.drag_action)
                      current_state == Unwrap(get_cell(b, x, y))
                  IN  IF drag_action = CreateCell
                      THEN IF current_state = Dead
                           THEN [drag_state |-> updated,
                                 board |-> set_cell(b, x, y, Alive).board,
                                 changed |-> set_cell(b, x, y, Alive).ok]
                           ELSE [drag_state |-> updated, board |-> b, changed |-> FALSE]
                      ELSE IF current_state = Alive
                           THEN [drag_state |-> updated,
                                 board |-> set_cell(b, x, y, Dead).board,
                                 changed |-> set_cell(b, x, y, Dead).ok]
                           ELSE [drag_state |-> updated, board |-> b, changed |-> FALSE]

\* CellStateManager::end_drag: the drag state after the call
end_drag(ds) == DragState_end_drag(ds)

\* CellStateManager::handle_mouse_over
handle_mouse_over(ds, b, x, y) ==
    IF ds.is_dragging
    THEN continue_drag(ds, b, x, y)
    ELSE [drag_state |-> ds, board |-> b, changed |-> FALSE]

\* reset that leaves the drag as it is
reset_keeping_drag(ds) == ds

\* CellStateManager::reset: the drag state after the call
reset(ds) == DragState_end_drag(ds)

-----------------------------------------------------------------------------
(* main.rs, ui/render.rs, ui/side_panel.rs *)

\* SimulationState
Stopped == "Stopped"
Running == "Running"

\* handle_mouse_interaction whose board_changed is what the last call returned
handle_mouse_interaction_last_result(ds, b, interaction) ==
    LET clicked ==
            IF IsSome(interaction.clicked_cell) /\ ~ds.is_dragging
            THEN LET cell == Unwrap(interaction.clicked_cell)
                     r    == handle_cell_click(b, cell[1], cell[2])
                 IN  [drag_state |-> ds, board |-> r.board, changed |-> r.ok]
            ELSE [drag_state |-> ds, board |-> b, changed |-> FALSE]
        pressed ==
            IF interaction.mouse_pressed /\ IsSome(interaction.hovered_cell)
            THEN LET cell == Unwrap(interaction.hovered_cell)
                 IN  start_drag(clicked.drag_state, clicked.board, cell[1], cell[2])
            ELSE clicked
        held ==
            IF /\ interaction.is_mouse_down
               /\ pressed.drag_state.is_dragging
               /\ IsSome(interaction.hovered_cell)
            THEN LET cell == Unwrap(interaction.hovered_cell)
                 IN  handle_mouse_over(pressed.drag_state, pressed.board, cell[1], cell[2])
            ELSE pressed
    IN  IF interaction.mouse_released
        THEN [held EXCEPT !.drag_state = end_drag(held.drag_state)]
        ELSE held

\* GameOfLifeApp::handle_mouse_interaction: the drag state and the board after the
\* call, and board_changed as it stands at the final test
handle_mouse_interaction(ds, b, interaction) ==
    LET clicked ==
            IF IsSome(interaction.clicked_cell) /\ ~ds.is_dragging
            THEN LET cell == Unwrap(interaction.clicked_cell)
                     r    == handle_cell_click(b, cell[1], cell[2])
                 IN  [drag_state |-> ds, board |-> r.board, changed |-> r.ok]
            ELSE [drag_state |-> ds, board |-> b, changed |-> FALSE]
        pressed ==
            IF interaction.mouse_pressed /\ IsSome(interaction.hovered_cell)
            THEN LET cell == Unwrap(interaction.hovered_cell)
                 IN  start_drag(clicked.drag_state, clicked.board, cell[1], cell[2])
            ELSE clicked
        held ==
            IF /\ interaction.is_mouse_down
               /\ pressed.drag_state.is_dragging
               /\ IsSome(interaction.hovered_cell)
            THEN LET cell == Unwrap(interaction.hovered_cell)
                     r    == handle_mouse_over(pressed.drag_state, pressed.board,
                                               cell[1], cell[2])
                 IN  [drag_state |-> r.drag_state, board |-> r.board,
                      changed |-> IF r.changed THEN TRUE ELSE pressed.changed]
            ELSE pressed
    IN  IF interaction.mouse_released
        THEN [held EXCEPT !.drag_state = end_drag(held.drag_state)]
        ELSE held

\* GameOfLifeApp::next_generation: the board after the call
app_next_generation(b, c) ==
    LET next     == next_generation(b, c)
        expanded == auto_expand_if_needed(next, c.expansion_margin, c)
    IN  IF IsSome(expanded) THEN Unwrap(expanded) ELSE next

\* GameOfLifeApp::resize_board_to: the board and the reset manager after the call
resize_board_to(b, rm, ever_started, new_size, c) ==
    IF ~ever_started
    THEN [board |-> resize_to_square(b, new_size), manager |-> rm]
    ELSE IF c.board_size_mode = Static
    THEN LET resized == resize_to_square(b, new_size)
         IN  IF IsSome(rm.pre_start_board)
             THEN LET temp         == reset_board(rm, resized, TRUE, c)
                      resized_temp == resize_to_square(temp.board, new_size)
                  IN  [board   |-> resized,
                       manager |-> save_pre_start_state(
                                       clear_pre_start_state(temp.manager),
                                       resized_temp)]
             ELSE [board |-> resized, manager |-> rm]
    ELSE [board |-> b, manager |-> rm]

-----------------------------------------------------------------------------
(* The calls recorded in ret *)

NoCall == [op |-> "none", args |-> <<>>, out |-> <<>>]
Call(op, args, out) == [op |-> op, args |-> args, out |-> out]

\* ResetManager::default
ResetManager_default ==
    [pre_start_board |-> None, last_reset_was_to_pre_start |-> FALSE,
     was_ever_started |-> FALSE]

\* DragState::default
DragState_default == [is_dragging |-> FALSE, drag_action |-> None, last_cell |-> None]

NoHist == [kind |-> "none"]

\* app where no GameOfLifeApp is made
NoApp == [kind |-> "none"]

\* the sets of at most k of the indices 1..n
IndexSets(n, k) == {{f[i] : i \in 1..k} \ {0} : f \in [1..k -> 0..n]}

\* every board of the given width and height with at most k Alive cells
BoardsOfSize(w, h, k) ==
    {[cells  |-> [i \in 1..(w * h) |-> IF i \in S THEN Alive ELSE Dead],
      width  |-> w,
      height |-> h] : S \in IndexSets(w * h, k)}

-----------------------------------------------------------------------------
(* SpecGrid: a board made by Board::new and the accessors of structure.rs       *)
(* called on it in any order, with usize coordinates up to one past the last   *)
(* column and row.  hist.before is the board before the last call, and         *)
(* hist.repeat tells that the last call had the method and the arguments of    *)
(* the call before it.                                                         *)

GridInit ==
    /\ \E w \in 0..GridMaxCells, h \in 0..GridMaxCells :
            /\ w * h <= GridMaxCells
            /\ board = Board_new(w, h)
    /\ cfg = DefaultConfig
    /\ reset_manager = ResetManager_default
    /\ drag_state = DragState_default
    /\ ret = NoCall
    /\ app = NoApp
    /\ hist = [kind |-> "grid", before |-> board, repeat |-> FALSE]

\* board.get_cell(x, y)
GetCell ==
    \E x \in 0..board.width, y \in 0..board.height :
        /\ ret' = Call("get_cell", <<x, y>>, get_cell(board, x, y))
        /\ hist' = [kind |-> "grid", before |-> board,
                    repeat |-> (ret.op = "get_cell" /\ ret.args = <<x, y>>)]
        /\ UNCHANGED <<app, board, cfg, reset_manager, drag_state>>

\* board.set_cell(x, y, state)
SetCell ==
    \E x \in 0..board.width, y \in 0..board.height, state \in CellState :
        /\ board' = set_cell(board, x, y, state).board
        /\ ret' = Call("set_cell", <<x, y, state>>, set_cell(board, x, y, state).ok)
        /\ hist' = [kind |-> "grid", before |-> board,
                    repeat |-> (ret.op = "set_cell" /\ ret.args = <<x, y, state>>)]
        /\ UNCHANGED <<app, cfg, reset_manager, drag_state>>

\* board.toggle_cell(x, y)
ToggleCell ==
    \E x \in 0..board.width, y \in 0..board.height :
        /\ board' = toggle_cell(board, x, y).board
        /\ ret' = Call("toggle_cell", <<x, y>>, toggle_cell(board, x, y).ok)
        /\ hist' = [kind |-> "grid", before |-> board,
                    repeat |-> (ret.op = "toggle_cell" /\ ret.args = <<x, y>>)]
        /\ UNCHANGED <<app, cfg, reset_manager, drag_state>>

\* board.clear()
Clear ==
    /\ board' = clear(board)
    /\ ret' = Call("clear", <<>>, <<>>)
    /\ hist' = [kind |-> "grid", before |-> board, repeat |-> (ret.op = "clear")]
    /\ UNCHANGED <<app, cfg, reset_manager, drag_state>>

GridNext == GetCell \/ SetCell \/ ToggleCell \/ Clear

SpecGrid == GridInit /\ [][GridNext]_vars

-----------------------------------------------------------------------------
(* SpecLife: the rule engine and the prediction as functions of a board and   *)
(* of the rules.  The board is any board of at most LifeMaxDim columns and    *)
(* rows; the rules are any two ranges the sliders of ui/settings.rs can set   *)
(* (start <= end) with end points up to LifeMaxRule.                          *)

LifeRanges ==
    {r \in [start : 0..LifeMaxRule, end : 0..LifeMaxRule] : r.start <= r.end}

\* the rules: the default ones, and every pair of ranges within the bound
LifeConfigs ==
    {DefaultConfig} \cup
    {[DefaultConfig EXCEPT !.birth_neighbors = br, !.survival_neighbors = sr] :
        br \in LifeRanges, sr \in LifeRanges}

LifeInit ==
    /\ \E w \in 0..LifeMaxDim, h \in 0..LifeMaxDim : board \in BoardsOfSize(w, h, LifeMaxAlive)
    /\ cfg \in LifeConfigs
    /\ reset_manager = ResetManager_default
    /\ drag_state = DragState_default
    /\ ret = NoCall
    /\ app = NoApp
    /\ hist = NoHist

\* let next = board.next_generation();
CallNextGeneration ==
    /\ ret = NoCall
    /\ ret' = Call("next_generation", <<board, cfg>>, next_generation(board, cfg))
    /\ UNCHANGED <<app, board, cfg, reset_manager, drag_state, hist>>

\* let prediction = predict_next_state(&board);
CallPredictNextState ==
    /\ ret = NoCall
    /\ ret' = Call("predict_next_state", <<board, cfg>>, predict_next_state(board, cfg))
    /\ UNCHANGED <<app, board, cfg, reset_manager, drag_state, hist>>

LifeNext == CallNextGeneration \/ CallPredictNextState

SpecLife == LifeInit /\ [][LifeNext]_vars


-----------------------------------------------------------------------------
(* SpecCellQuery: the single-cell queries of prediction.rs, asked once about a *)
(* board for a pair of usize coordinates up to one past the last column and    *)
(* row.                                                                        *)

QueryRanges ==
    {r \in [start : 0..QueryMaxRule, end : 0..QueryMaxRule] : r.start <= r.end}

QueryConfigs ==
    {DefaultConfig} \cup
    {[DefaultConfig EXCEPT !.birth_neighbors = br, !.survival_neighbors = sr] :
        br \in QueryRanges, sr \in QueryRanges}

CellQueryInit ==
    /\ \E w \in 1..QueryMaxDim, h \in 1..QueryMaxDim :
            board \in BoardsOfSize(w, h, QueryMaxAlive)
    /\ cfg \in QueryConfigs
    /\ reset_manager = ResetManager_default
    /\ drag_state = DragState_default
    /\ ret = NoCall
    /\ app = NoApp
    /\ hist = NoHist

\* will_cell_be_born(&board, x, y)
CallWillCellBeBorn ==
    /\ ret = NoCall
    /\ \E x \in 0..board.width, y \in 0..board.height :
            ret' = Call("will_cell_be_born", <<x, y>>, will_cell_be_born(board, cfg, x, y))
    /\ UNCHANGED <<app, board, cfg, reset_manager, drag_state, hist>>

\* will_cell_die(&board, x, y)
CallWillCellDie ==
    /\ ret = NoCall
    /\ \E x \in 0..board.width, y \in 0..board.height :
            ret' = Call("will_cell_die", <<x, y>>, will_cell_die(board, cfg, x, y))
    /\ UNCHANGED <<app, board, cfg, reset_manager, drag_state, hist>>

CellQueryNext == CallWillCellBeBorn \/ CallWillCellDie

SpecCellQuery == CellQueryInit /\ [][CellQueryNext]_vars

-----------------------------------------------------------------------------
(* SpecPatterns: next_generation applied to a board and then to its own result, *)
(* and is_stable asked of any of these boards, on the boards that hold a small  *)
(* pattern.  hist.start is the board at the start and hist.generation the       *)
(* number of generations computed since.                                        *)

\* the sets of Alive cells of the boards at the start: three cells in a row,
\* anywhere; any cells of a 2x2 square, anywhere; none
PatternCells(w, h) ==
    {{<<x + i, y>> : i \in 0..2} : x \in 0..(w - 3), y \in 0..(h - 1)}
    \cup UNION {SUBSET {<<x, y>>, <<x + 1, y>>, <<x, y + 1>>, <<x + 1, y + 1>>} :
                    x \in 0..(w - 2), y \in 0..(h - 2)}
    \cup {{}}

\* the default rules, and rules under which no cell dies
PatternConfigs ==
    {DefaultConfig,
     [DefaultConfig EXCEPT !.survival_neighbors = [start |-> 0, end |-> 8]]}

PatternsInit ==
    /\ \E w \in 1..PatMaxDim, h \in 1..PatMaxDim :
            board \in {[cells  |-> [i \in 1..(w * h) |->
                                        IF <<(i - 1) % w, (i - 1) \div w>> \in S
                                        THEN Alive ELSE Dead],
                        width  |-> w,
                        height |-> h] : S \in PatternCells(w, h)}
    /\ cfg \in PatternConfigs
    /\ reset_manager = ResetManager_default
    /\ drag_state = DragState_default
    /\ ret = NoCall
    /\ app = NoApp
    /\ hist = [kind |-> "pattern", start |-> board, generation |-> 0]

\* board = board.next_generation();
StepNextGeneration ==
    /\ hist.generation < PatMaxGenerations
    /\ board' = next_generation(board, cfg)
    /\ ret' = Call("next_generation", <<board>>, board')
    /\ hist' = [hist EXCEPT !.generation = hist.generation + 1]
    /\ UNCHANGED <<app, cfg, reset_manager, drag_state>>

\* board.is_stable()
CallIsStable ==
    /\ ret' = Call("is_stable", <<board>>, is_stable(board, cfg))
    /\ UNCHANGED <<app, board, cfg, reset_manager, drag_state, hist>>

PatternsNext == StepNextGeneration \/ CallIsStable

SpecPatterns == PatternsInit /\ [][PatternsNext]_vars

-----------------------------------------------------------------------------
(* SpecResize: expand_by_layers and resize_to as functions of a board and of   *)
(* their arguments.                                                            *)

ResizeInit ==
    /\ \E w \in 0..ResizeMaxDim, h \in 0..ResizeMaxDim : board \in BoardsOfSize(w, h, ResizeMaxAlive)
    /\ cfg = DefaultConfig
    /\ reset_manager = ResetManager_default
    /\ drag_state = DragState_default
    /\ ret = NoCall
    /\ app = NoApp
    /\ hist = NoHist

\* board.expand_by_layers(layers)
CallExpandByLayers ==
    /\ ret = NoCall
    /\ \E layers \in 0..ResizeMaxLayers :
            ret' = Call("expand_by_layers", <<board, layers>>,
                        expand_by_layers(board, layers))
    /\ UNCHANGED <<app, board, cfg, reset_manager, drag_state, hist>>

\* board.resize_to(new_width, new_height)
CallResizeTo ==
    /\ ret = NoCall
    /\ \E new_width \in 0..(ResizeMaxDim + 1), new_height \in 0..(ResizeMaxDim + 1) :
            ret' = Call("resize_to", <<board, new_width, new_height>>,
                        resize_to(board, new_width, new_height))
    /\ UNCHANGED <<app, board, cfg, reset_manager, drag_state, hist>>

\* let resized = board.resize_to(W, H); resized.resize_to(w, h), w x h being the
\* size of board
CallResizeToBack ==
    /\ ret.op = "resize_to"
    /\ hist = NoHist
    /\ board' = ret.out
    /\ hist' = [kind |-> "resized", first |-> ret]
    /\ ret' = Call("resize_to", <<board', board.width, board.height>>,
                   resize_to(board', board.width, board.height))
    /\ UNCHANGED <<app, cfg, reset_manager, drag_state>>

ResizeNext == CallExpandByLayers \/ CallResizeTo \/ CallResizeToBack

SpecResize == ResizeInit /\ [][ResizeNext]_vars

-----------------------------------------------------------------------------
(* SpecOptimize: optimize_size as a function of a board and of its margin,     *)
(* applied to a board and then once more to the board it returned.             *)

OptimizeInit ==
    /\ \E w \in 0..OptMaxDim, h \in 0..OptMaxDim : board \in BoardsOfSize(w, h, OptMaxAlive)
    /\ cfg = DefaultConfig
    /\ reset_manager = ResetManager_default
    /\ drag_state = DragState_default
    /\ ret = NoCall
    /\ app = NoApp
    /\ hist = NoHist

\* optimize_size has handed back Some(board), not None, and has not run for ever
Returned(out) == Len(out) = 1

\* let optimized = board.optimize_size(margin);
CallOptimizeSize ==
    /\ ret = NoCall
    /\ \E margin \in 0..OptMaxMargin :
            ret' = Call("optimize_size", <<board, margin>>, optimize_size(board, margin))
    /\ UNCHANGED <<app, board, cfg, reset_manager, drag_state, hist>>

\* if let Some(optimized) = optimized { board = optimized; board.optimize_size(margin) }
CallOptimizeSizeAgain ==
    /\ ret.op = "optimize_size"
    /\ hist = NoHist
    /\ Returned(ret.out)
    /\ board' = Unwrap(ret.out)
    /\ hist' = [kind |-> "optimized", first |-> ret]
    /\ ret' = Call("optimize_size", <<board', ret.args[2]>>,
                   optimize_size(board', ret.args[2]))
    /\ UNCHANGED <<app, cfg, reset_manager, drag_state>>

OptimizeNext == CallOptimizeSize \/ CallOptimizeSizeAgain

SpecOptimize == OptimizeInit /\ [][OptimizeNext]_vars

-----------------------------------------------------------------------------
(* SpecTransform: the three transformations of expansion.rs that hand a new    *)
(* board to the caller, each called once on the boards of SpecResize.          *)

TransformNext == CallExpandByLayers \/ CallResizeTo \/ CallOptimizeSize

SpecTransform == ResizeInit /\ [][TransformNext]_vars

-----------------------------------------------------------------------------
(* SpecExpand: auto_expand_if_needed, called on a board under a configuration,  *)
(* and the generation step of the driver, which calls it after every            *)
(* generation.  The configuration is the one of GLOBAL_CONFIG: either mode, a   *)
(* max_board_size within the clamp of set_max_board_size, the rules of Conway   *)
(* or rules under which every cell survives.                                    *)

ExpandConfigs ==
    {[DefaultConfig EXCEPT !.survival_neighbors = sr,
                           !.board_size_mode    = mode,
                           !.max_board_size     = max_size,
                           !.expansion_layers   = layers,
                           !.expansion_margin   = margin] :
        sr \in {[start |-> 2, end |-> 3], [start |-> 0, end |-> 8]},
        mode \in {Dynamic, Static},
        max_size \in 3..ExpMaxSize,
        layers \in 1..ExpMaxLayers,
        margin \in 0..ExpMaxMargin}

ExpandInit ==
    /\ \E w \in 1..ExpMaxDim, h \in 1..ExpMaxDim : board \in BoardsOfSize(w, h, ExpMaxAlive)
    /\ cfg \in ExpandConfigs
    /\ reset_manager = ResetManager_default
    /\ drag_state = DragState_default
    /\ ret = NoCall
    /\ app = NoApp
    /\ hist = [kind |-> "expand", width |-> board.width, height |-> board.height,
               stepped |-> FALSE]

\* board.auto_expand_if_needed(config.expansion_margin)
CallAutoExpandIfNeeded ==
    /\ ret = NoCall
    /\ ret' = Call("auto_expand_if_needed", <<board, cfg.expansion_margin, cfg>>,
                   auto_expand_if_needed(board, cfg.expansion_margin, cfg))
    /\ UNCHANGED <<app, board, cfg, reset_manager, drag_state, hist>>

\* GameOfLifeApp::next_generation: the board becomes its next generation, and then
\* the expanded board when auto_expand_if_needed returns one.  (The generation and
\* alive-cell counters of the side panel and the prediction cache are not state of
\* this model.)
GenerationStep ==
    LET next     == next_generation(board, cfg)
        expanded == auto_expand_if_needed(next, cfg.expansion_margin, cfg)
    IN  /\ board' = IF IsSome(expanded) THEN Unwrap(expanded) ELSE next
        /\ ret' = Call("auto_expand_if_needed", <<next, cfg.expansion_margin, cfg>>, expanded)
        /\ hist' = [hist EXCEPT !.stepped = TRUE]
        /\ UNCHANGED <<app, cfg, reset_manager, drag_state>>

ExpandNext == CallAutoExpandIfNeeded \/ GenerationStep

SpecExpand == ExpandInit /\ [][ExpandNext]_vars

-----------------------------------------------------------------------------
(* SpecReset: the methods of a ResetManager called in any order, with a board    *)
(* to save, under a configuration whose board_size_mode may change between the  *)
(* calls.  hist.phase follows the calls: "saved" after save_pre_start_state,     *)
(* "first" and "second" after the first and the second reset_board(_, true)      *)
(* that follow it with no other call of the manager in between; in these        *)
(* phases hist.saved_mode is the board_size_mode at that save_pre_start_state.   *)

ResetConfigs ==
    {[DefaultConfig EXCEPT !.board_size_mode    = mode,
                           !.initial_board_size = initial_size,
                           !.static_board_size  = static_size] :
        mode \in {Dynamic, Static},
        initial_size \in 3..ResetMaxSize,
        static_size \in 3..ResetMaxSize}

ResetInit ==
    /\ \E size \in 2..ResetMaxDim : board \in BoardsOfSize(size, size, ResetMaxAlive)
    /\ cfg \in ResetConfigs
    /\ reset_manager = ResetManager_default
    /\ drag_state = DragState_default
    /\ ret = NoCall
    /\ app = NoApp
    /\ hist = [kind |-> "reset", phase |-> "none", saved_mode |-> None]

\* reset_manager.save_pre_start_state(&board)
SavePreStartState ==
    /\ reset_manager' = save_pre_start_state(reset_manager, board)
    /\ ret' = Call("save_pre_start_state", <<board>>, <<>>)
    /\ hist' = [hist EXCEPT !.phase = "saved", !.saved_mode = Some(cfg.board_size_mode)]
    /\ UNCHANGED <<app, board, cfg, drag_state>>

\* let (new_board, should_reset_ever_started) = reset_manager.reset_board(&board, ever_started)
ResetBoard ==
    \E ever_started \in BOOLEAN :
        LET r == reset_board(reset_manager, board, ever_started, cfg)
        IN  /\ reset_manager' = r.manager
            /\ ret' = Call("reset_board", <<board, ever_started, cfg>>, <<r.board, r.flag>>)
            /\ hist' = IF ever_started /\ hist.phase = "saved"
                       THEN [hist EXCEPT !.phase = "first"]
                       ELSE IF ever_started /\ hist.phase = "first"
                       THEN [hist EXCEPT !.phase = "second"]
                       ELSE [hist EXCEPT !.phase = "none", !.saved_mode = None]
            /\ UNCHANGED <<app, board, cfg, drag_state>>

\* reset_manager.clear_pre_start_state()
ClearPreStartState ==
    /\ reset_manager' = clear_pre_start_state(reset_manager)
    /\ ret' = Call("clear_pre_start_state", <<>>, <<>>)
    /\ hist' = [hist EXCEPT !.phase = "none", !.saved_mode = None]
    /\ UNCHANGED <<app, board, cfg, drag_state>>

\* modify_config(|config| config.set_board_size_mode(mode))
SetBoardSizeMode ==
    /\ \E mode \in {Dynamic, Static} :
            /\ mode /= cfg.board_size_mode
            /\ cfg' = [cfg EXCEPT !.board_size_mode = mode]
    /\ UNCHANGED <<app, board, reset_manager, drag_state, ret, hist>>

ResetNext == SavePreStartState \/ ResetBoard \/ ClearPreStartState \/ SetBoardSizeMode

SpecReset == ResetInit /\ [][ResetNext]_vars

-----------------------------------------------------------------------------
(* SpecDrag: the methods of a CellStateManager called in any order on a board,  *)
(* with the pointer over any cell of the board or just past its edge.           *)
(* hist.action is the action start_drag chose for the gesture in progress;      *)
(* hist.pure tells that only continue_drag (or handle_mouse_over) has been      *)
(* called since that start_drag.                                                *)

DragInit ==
    /\ \E w \in 1..DragMaxCells, h \in 1..DragMaxCells :
            /\ w * h <= DragMaxCells
            /\ board \in {[cells |-> c, width |-> w, height |-> h] :
                            c \in [1..(w * h) -> CellState]}
    /\ cfg = DefaultConfig
    /\ reset_manager = ResetManager_default
    /\ drag_state = DragState_default
    /\ ret = NoCall
    /\ app = NoApp
    /\ hist = [kind |-> "drag", action |-> None, pure |-> FALSE]

\* cell_state_manager.handle_cell_click(&mut board, x, y)
HandleCellClick ==
    \E x \in 0..board.width, y \in 0..board.height :
        LET r == handle_cell_click(board, x, y)
        IN  /\ board' = r.board
            /\ ret' = Call("handle_cell_click", <<x, y>>, <<r.ok>>)
            /\ hist' = [hist EXCEPT !.pure = FALSE]
            /\ UNCHANGED <<app, cfg, reset_manager, drag_state>>

\* cell_state_manager.start_drag(&mut board, x, y)
StartDrag ==
    \E x \in 0..board.width, y \in 0..board.height :
        LET r == start_drag(drag_state, board, x, y)
        IN  /\ board' = r.board
            /\ drag_state' = r.drag_state
            /\ ret' = Call("start_drag", <<x, y>>, <<r.changed>>)
            /\ hist' = IF IsSome(get_cell(board, x, y))
                       THEN [hist EXCEPT !.action = r.drag_state.drag_action,
                                         !.pure = TRUE]
                       ELSE hist
            /\ UNCHANGED <<app, cfg, reset_manager>>

\* cell_state_manager.continue_drag(&mut board, x, y)
ContinueDrag ==
    \E x \in 0..board.width, y \in 0..board.height :
        LET r == continue_drag(drag_state, board, x, y)
        IN  /\ board' = r.board
            /\ drag_state' = r.drag_state
            /\ ret' = Call("continue_drag", <<x, y>>, <<r.changed>>)
            /\ UNCHANGED <<app, cfg, reset_manager, hist>>

\* cell_state_manager.handle_mouse_over(&mut board, x, y)
HandleMouseOver ==
    \E x \in 0..board.width, y \in 0..board.height :
        LET r == handle_mouse_over(drag_state, board, x, y)
        IN  /\ board' = r.board
            /\ drag_state' = r.drag_state
            /\ ret' = Call("handle_mouse_over", <<x, y>>, <<r.changed>>)
            /\ UNCHANGED <<app, cfg, reset_manager, hist>>

\* cell_state_manager.end_drag()
EndDrag ==
    /\ drag_state' = end_drag(drag_state)
    /\ ret' = Call("end_drag", <<>>, <<>>)
    /\ hist' = [hist EXCEPT !.action = None, !.pure = FALSE]
    /\ UNCHANGED <<app, board, cfg, reset_manager>>

\* cell_state_manager.reset()
ResetDrag ==
    /\ drag_state' = reset(drag_state)
    /\ ret' = Call("reset", <<>>, <<>>)
    /\ hist' = [hist EXCEPT !.action = None, !.pure = FALSE]
    /\ UNCHANGED <<app, board, cfg, reset_manager>>

DragNext ==
    \/ HandleCellClick
    \/ StartDrag
    \/ ContinueDrag
    \/ HandleMouseOver
    \/ EndDrag
    \/ ResetDrag

SpecDrag == DragInit /\ [][DragNext]_vars

\* SpecDragCalls: the same methods on the smaller boards, for the claims about
\* what one call does to the cells and to the drag state
DragCallsInit ==
    /\ \E w \in 1..DragCallsMaxCells, h \in 1..DragCallsMaxCells :
            /\ w * h <= DragCallsMaxCells
            /\ board \in {[cells |-> c, width |-> w, height |-> h] :
                            c \in [1..(w * h) -> CellState]}
    /\ cfg = DefaultConfig
    /\ reset_manager = ResetManager_default
    /\ drag_state = DragState_default
    /\ ret = NoCall
    /\ app = NoApp
    /\ hist = [kind |-> "drag", action |-> None, pure |-> FALSE]

SpecDragCalls == DragCallsInit /\ [][DragNext]_vars

-----------------------------------------------------------------------------
(* SpecApp: the GameOfLifeApp of main.rs.  Each action is one thing update does   *)
(* in a frame: the generation step of a running simulation, handle_user_action  *)
(* for the UserAction of the side panel (with the change the settings panel     *)
(* made to the configuration before it returned the action),                    *)
(* update_prediction_if_needed, and handle_mouse_interaction for the            *)
(* MouseInteraction of the renderer.  The actions are taken in any order, which *)
(* includes the order of a frame.  handle_user_action is applied to every       *)
(* UserAction in every state, whether or not the side panel shows the button    *)
(* for it.  Sizes are the sides of the boards of at most AppMaxCells cells and  *)
(* max_board_size is the largest of them, so a generation step never grows the  *)
(* board here (SpecExpand has the growth).  initial_board and alive_cells_count *)
(* are written and never read by the code modelled, and are left out.  The      *)
(* sizes 3..=201 of the sliders are scaled down to the sizes of AppSizes.       *)
(* hist.trail tells what the last actions were: a Reset and what it followed    *)
(* (reset_trail), a Start on a board with Alive cells after the Reset that      *)
(* returned the snapshot (restarted) and generation steps after it (reran), or  *)
(* an edit event that arrived while Running (ignored).                          *)

AppSizes == {s \in 1..AppMaxCells : s * s <= AppMaxCells}

AppMaxSize == CHOOSE s \in AppSizes : \A t \in AppSizes : t <= s

\* the rules the sliders of the settings panel are moved between
AppRules ==
    {[birth |-> [start |-> 3, end |-> 3], survival |-> [start |-> 2, end |-> 3]],
     [birth |-> [start |-> 3, end |-> 3], survival |-> [start |-> 0, end |-> 3]]}

\* GameOfLifeApp::default with GameConfig::default and InitialState::default (the
\* Empty pattern): an all-Dead board of initial_board_size
AppInit ==
    /\ \E initial \in AppSizes, static \in AppSizes :
            /\ cfg = [DefaultConfig EXCEPT !.max_board_size = AppMaxSize,
                                           !.initial_board_size = initial,
                                           !.static_board_size = static]
            /\ board = Board_new(initial, initial)
    /\ reset_manager = ResetManager_default
    /\ drag_state = DragState_default
    /\ ret = NoCall
    /\ app = [kind |-> "app", simulation_state |-> Stopped, ever_started |-> FALSE,
              generation_count |-> 0, current_prediction |-> None]
    /\ hist = [kind |-> "app", trail |-> "none"]

\* hist.trail after a Reset: the Reset is the second in a row (reset_first_twice
\* after a Reset that returned the snapshot, reset_twice after any other), or it
\* follows a first Reset, a Start and generation steps (reset_rerun), or it
\* returns the snapshot (reset_first), or none of these (reset)
reset_trail(trail, rm, ever_started) ==
    IF trail = "reset_first" THEN "reset_first_twice"
    ELSE IF trail \in {"reset", "reset_rerun", "reset_twice", "reset_first_twice"}
    THEN "reset_twice"
    ELSE IF trail = "reran" THEN "reset_rerun"
    ELSE IF ever_started /\ IsSome(rm.pre_start_board) /\ ~rm.last_reset_was_to_pre_start
    THEN "reset_first"
    ELSE "reset"

\* update: the generation step of a running simulation
Tick ==
    /\ app.simulation_state = Running
    /\ app.generation_count < AppMaxGenerations
    /\ board' = app_next_generation(board, cfg)
    /\ app' = [app EXCEPT !.generation_count = @ + 1, !.current_prediction = None]
    /\ hist' = [hist EXCEPT !.trail =
                    IF @ \in {"restarted", "reran"} THEN "reran" ELSE "none"]
    /\ UNCHANGED <<ret, cfg, reset_manager, drag_state>>

\* the Start arm saving the snapshot at every Start
UserStart_saving_always ==
    /\ reset_manager' = save_pre_start_state(reset_manager, board)
    /\ app' = [app EXCEPT !.simulation_state = Running, !.ever_started = TRUE]
    /\ hist' = [hist EXCEPT !.trail =
                    IF @ = "reset_first" /\ count_alive_cells(board) > 0 THEN "restarted"
                    ELSE IF @ \in {"restarted", "reran"} THEN @
                    ELSE "none"]
    /\ UNCHANGED <<ret, board, cfg, drag_state>>

\* handle_user_action(UserAction::Start)
UserStart ==
    /\ reset_manager' = IF ~app.ever_started
                        THEN save_pre_start_state(reset_manager, board)
                        ELSE reset_manager
    /\ app' = [app EXCEPT !.simulation_state = Running, !.ever_started = TRUE]
    /\ hist' = [hist EXCEPT !.trail =
                    IF @ = "reset_first" /\ count_alive_cells(board) > 0 THEN "restarted"
                    ELSE IF @ \in {"restarted", "reran"} THEN @
                    ELSE "none"]
    /\ UNCHANGED <<ret, board, cfg, drag_state>>

\* handle_user_action(UserAction::Stop)
UserStop ==
    /\ app' = [app EXCEPT !.simulation_state = Stopped]
    /\ hist' = [hist EXCEPT !.trail =
                    IF @ \in {"restarted", "reran"} THEN @ ELSE "none"]
    /\ UNCHANGED <<ret, board, cfg, reset_manager, drag_state>>

\* handle_user_action(UserAction::Reset): reset_to_initial_state
UserReset ==
    LET r == reset_board(reset_manager, board, app.ever_started, cfg)
    IN  /\ board' = r.board
        /\ reset_manager' = r.manager
        /\ drag_state' = reset(drag_state)
        /\ app' = [app EXCEPT !.simulation_state = Stopped,
                              !.generation_count = 0,
                              !.ever_started = IF r.flag THEN FALSE ELSE @,
                              !.current_prediction = None]
        /\ hist' = [hist EXCEPT !.trail = reset_trail(@, reset_manager, app.ever_started)]
        /\ UNCHANGED <<ret, cfg>>

\* handle_user_action(UserAction::Step)
UserStep ==
    /\ IF app.simulation_state = Stopped
       THEN /\ app.generation_count < AppMaxGenerations
            /\ board' = app_next_generation(board, cfg)
            /\ app' = [app EXCEPT !.generation_count = @ + 1,
                                  !.current_prediction = None]
       ELSE UNCHANGED <<board, app>>
    /\ hist' = [hist EXCEPT !.trail =
                    IF app.simulation_state = Running THEN "ignored" ELSE "none"]
    /\ UNCHANGED <<ret, cfg, reset_manager, drag_state>>

\* handle_user_action(UserAction::EditCell(x, y))
UserEditCell ==
    \E x \in 0..board.width, y \in 0..board.height :
        LET r == handle_cell_click(board, x, y)
        IN  /\ IF app.simulation_state = Stopped
               THEN /\ count_alive_cells(r.board) <= AppMaxAlive
                    /\ board' = r.board
                    /\ app' = IF r.ok THEN [app EXCEPT !.current_prediction = None]
                                      ELSE app
               ELSE UNCHANGED <<board, app>>
            /\ hist' = [hist EXCEPT !.trail =
                            IF app.simulation_state = Running THEN "ignored" ELSE "none"]
            /\ UNCHANGED <<ret, cfg, reset_manager, drag_state>>

\* a slider of the rules section moved (set_birth_neighbors and
\* set_survival_neighbors), then handle_user_action(UserAction::RulesChanged)
UserRulesChanged ==
    \E rules \in AppRules :
        /\ <<rules.birth, rules.survival>> /= <<cfg.birth_neighbors, cfg.survival_neighbors>>
        /\ cfg' = [cfg EXCEPT !.birth_neighbors = rules.birth,
                              !.survival_neighbors = rules.survival]
        /\ app' = [app EXCEPT !.current_prediction = None]
        /\ hist' = [hist EXCEPT !.trail = "none"]
        /\ UNCHANGED <<ret, board, reset_manager, drag_state>>

\* a radio button of the board mode clicked (set_board_size_mode), then
\* handle_user_action(UserAction::BoardSettingsChanged)
UserBoardSettingsChanged ==
    \E mode \in {Dynamic, Static} :
        /\ cfg' = [cfg EXCEPT !.board_size_mode = mode]
        /\ app' = [app EXCEPT !.current_prediction = None]
        /\ hist' = [hist EXCEPT !.trail = "none"]
        /\ UNCHANGED <<ret, board, reset_manager, drag_state>>

\* the size slider of the current mode moved (set_initial_board_size in Dynamic
\* mode, set_static_board_size in Static mode), then
\* handle_user_action(UserAction::BoardSizeChanged(new_size)): resize_board_to
UserBoardSizeChanged ==
    \E new_size \in AppSizes :
        LET config == IF cfg.board_size_mode = Dynamic
                      THEN [cfg EXCEPT !.initial_board_size = new_size]
                      ELSE [cfg EXCEPT !.static_board_size = new_size]
            r      == resize_board_to(board, reset_manager, app.ever_started,
                                      new_size, config)
        IN  /\ config /= cfg
            /\ cfg' = config
            /\ board' = r.board
            /\ reset_manager' = r.manager
            /\ app' = [app EXCEPT !.simulation_state = Stopped,
                                  !.current_prediction = None]
            /\ hist' = [hist EXCEPT !.trail = "none"]
            /\ UNCHANGED <<ret, drag_state>>

\* handle_user_action(UserAction::RandomFill): generate_random_board, where the
\* randomizer returns some board of the size of the current one
UserRandomFill ==
    \E new_board \in BoardsOfSize(board.width, board.height, AppMaxAlive) :
        /\ IF app.simulation_state = Stopped
           THEN /\ board' = new_board
                /\ app' = [app EXCEPT !.current_prediction = None,
                                      !.generation_count = 0]
                /\ reset_manager' =
                        IF app.ever_started
                        THEN save_pre_start_state(
                                clear_pre_start_state(reset_manager), new_board)
                        ELSE reset_manager
           ELSE UNCHANGED <<board, app, reset_manager>>
        /\ hist' = [hist EXCEPT !.trail =
                        IF app.simulation_state = Running THEN "ignored" ELSE "none"]
        /\ UNCHANGED <<ret, cfg, drag_state>>

\* GameOfLifeApp::update_prediction_if_needed, with the Show preview checkbox of
\* the side panel as it stands at the call
UpdatePredictionIfNeeded ==
    \E show_preview \in BOOLEAN :
        LET computed ==
                IF /\ app.simulation_state = Stopped
                   /\ show_preview
                   /\ ~IsSome(app.current_prediction)
                THEN Some(predict_next_state(board, cfg))
                ELSE app.current_prediction
        IN  /\ app' = [app EXCEPT !.current_prediction =
                                        IF ~show_preview THEN None ELSE computed]
            /\ UNCHANGED <<ret, board, cfg, reset_manager, drag_state, hist>>

\* the MouseInteraction records BoardRenderer::render builds over a board: the
\* pointer is outside the board rectangle or over a cell, clicked_cell is the
\* hovered cell when the pointer clicked, and the primary button is up, held,
\* pressed, released, pressed and released, or released and pressed within the
\* frame (is_mouse_down, mouse_pressed, mouse_released)
MouseInteractions(b) ==
    {[clicked_cell |-> IF click THEN hovered ELSE None, hovered_cell |-> hovered,
      is_mouse_down |-> button[1], mouse_pressed |-> button[2],
      mouse_released |-> button[3]] :
        hovered \in {None} \cup {Some(p) : p \in (0..(b.width - 1)) \X (0..(b.height - 1))},
        click \in BOOLEAN,
        button \in {<<FALSE, FALSE, FALSE>>, <<TRUE, FALSE, FALSE>>,
                    <<TRUE, TRUE, FALSE>>, <<FALSE, FALSE, TRUE>>,
                    <<FALSE, TRUE, TRUE>>, <<TRUE, TRUE, TRUE>>}}

\* handle_mouse_interaction(interaction)
MouseInteraction(interaction) ==
    LET r == handle_mouse_interaction(drag_state, board, interaction)
    IN  /\ count_alive_cells(r.board) <= AppMaxAlive
        /\ board' = r.board
        /\ drag_state' = r.drag_state
        /\ app' = IF r.changed THEN [app EXCEPT !.current_prediction = None]
                               ELSE app
        /\ hist' = [hist EXCEPT !.trail =
                        IF app.simulation_state = Running THEN "ignored" ELSE "none"]
        /\ UNCHANGED <<ret, cfg, reset_manager>>

\* update calling handle_mouse_interaction in every frame, Running or not
HandleMouseInteraction_while_running ==
    \E interaction \in MouseInteractions(board) : MouseInteraction(interaction)

\* update: the MouseInteraction of the frame is handled only while Stopped
HandleMouseInteraction ==
    IF app.simulation_state = Stopped
    THEN \E interaction \in MouseInteractions(board) : MouseInteraction(interaction)
    ELSE /\ hist' = [hist EXCEPT !.trail = "ignored"]
         /\ UNCHANGED <<board, cfg, reset_manager, drag_state, ret, app>>

AppNext ==
    \/ Tick
    \/ UserStart
    \/ UserStop
    \/ UserReset
    \/ UserStep
    \/ UserEditCell
    \/ UserRulesChanged
    \/ UserBoardSettingsChanged
    \/ UserBoardSizeChanged
    \/ UserRandomFill
    \/ UpdatePredictionIfNeeded
    \/ HandleMouseInteraction

SpecApp == AppInit /\ [][AppNext]_vars

-----------------------------------------------------------------------------
(* What the claims are stated with: the cell at a position, read from the data  *)
(* model of a Board (index y * width + x), and the positions of a board.        *)

CellAt(b, x, y) == b.cells[y * b.width + x + 1]
Positions(b) == (0..(b.width - 1)) \X (0..(b.height - 1))
AlivePositions(b) == {p \in Positions(b) : CellAt(b, p[1], p[2]) = Alive}
Abs(n) == IF n < 0 THEN -n ELSE n

\* a well-formed board: width * height cells, each Dead or Alive
WellFormed(b) ==
    /\ b.width \in Nat /\ b.height \in Nat
    /\ DOMAIN b.cells = 1..(b.width * b.height)
    /\ \A i \in DOMAIN b.cells : b.cells[i] \in CellState

\* the number of the positions of the set alive among the Moore neighbours of
\* (x,y): the up to 8 positions at distance 1, diagonals included, no wrap-around
MooreAlive(alive, x, y) ==
    Cardinality({p \in alive :
        p /= <<x, y>> /\ Abs(p[1] - x) <= 1 /\ Abs(p[2] - y) <= 1})

\* the rule of the game for the cell (x,y) of a board whose Alive cells are the
\* positions of the set alive
RuleAlive(alive, c, x, y) ==
    LET n == MooreAlive(alive, x, y)
    IN  \/ /\ <<x, y>> \notin alive
           /\ c.birth_neighbors.start <= n /\ n <= c.birth_neighbors.end
        \/ /\ <<x, y>> \in alive
           /\ c.survival_neighbors.start <= n /\ n <= c.survival_neighbors.end

-----------------------------------------------------------------------------
(* Claims on the rule engine and the prediction (SpecLife) *)

\* C3: for every grid and every rule configuration, next_generation returns a new
\* grid of the same width and height in which the cell (x,y) is Alive iff it was
\* Dead with a number of Alive Moore neighbours in birth_range, or Alive with that
\* number in survival_range; the neighbours include the diagonals, a neighbour
\* position outside the grid counts as Dead (no wrap-around), and the input grid is
\* not modified.
C3_NextGenerationRule ==
    ret.op = "next_generation" =>
        LET in    == ret.args[1]
            c     == ret.args[2]
            out   == ret.out
            alive == AlivePositions(in)
        IN  /\ WellFormed(out)
            /\ out.width = in.width /\ out.height = in.height
            /\ \A p \in Positions(in) :
                    (CellAt(out, p[1], p[2]) = Alive) <=> RuleAlive(alive, c, p[1], p[2])
            /\ board = in

\* C3, witness: a next_generation in which a cell of the border is born next to an
\* Alive cell while the cell on the opposite border stays Dead, and a cell dies
C3_Witness ==
    /\ ret.op = "next_generation"
    /\ board.width = 3
    /\ \E y \in 0..(board.height - 1) :
            /\ CellAt(board, 0, y) = Dead /\ CellAt(ret.out, 0, y) = Alive
            /\ CellAt(board, 2, y) = Dead /\ CellAt(ret.out, 2, y) = Dead
    /\ \E p \in Positions(board) :
            CellAt(board, p[1], p[2]) = Alive /\ CellAt(ret.out, p[1], p[2]) = Dead

\* C4: for every grid and rule configuration, predict_next_state agrees with
\* next_generation: next_alive_cells is exactly the set of the cells Alive in
\* next_generation(grid), birth_cells the set of the cells Dead now and Alive there,
\* death_cells the set of the cells Alive now and Dead there; hence birth_cells and
\* death_cells are disjoint and birth_cells is a subset of next_alive_cells; the
\* grid is not modified.
C4_PredictionAgrees ==
    ret.op = "predict_next_state" =>
        LET in   == ret.args[1]
            next == next_generation(in, ret.args[2])
            out  == ret.out
        IN  /\ Range(out.next_alive_cells) = AlivePositions(next)
            /\ Range(out.birth_cells) = AlivePositions(next) \ AlivePositions(in)
            /\ Range(out.death_cells) = AlivePositions(in) \ AlivePositions(next)
            /\ Range(out.birth_cells) \cap Range(out.death_cells) = {}
            /\ Range(out.birth_cells) \subseteq Range(out.next_alive_cells)
            /\ board = in

\* C4, witness: a prediction with births and deaths
C4_Witness ==
    /\ ret.op = "predict_next_state"
    /\ Len(ret.out.birth_cells) >= 2
    /\ Len(ret.out.death_cells) >= 2

-----------------------------------------------------------------------------
(* Claims on expand_by_layers and resize_to (SpecResize) *)

\* the positions of out that are the image of a position of in moved by (dx, dy)
Image(in, dx, dy) == {<<p[1] + dx, p[2] + dy>> : p \in Positions(in)}

\* C9: for every grid of size w x h and every k >= 1, expand_by_layers(grid, k)
\* returns a grid of size (w+2k) x (h+2k) in which the cell (x+k, y+k) has the state
\* of the input cell (x,y) for every in-bounds (x,y), and every other cell is Dead;
\* the input grid is not modified; k = 0 returns no grid.
C9_ExpandByLayers ==
    ret.op = "expand_by_layers" =>
        LET in == ret.args[1]
            k  == ret.args[2]
        IN  /\ board = in
            /\ k = 0 => ret.out = None
            /\ k >= 1 =>
                /\ IsSome(ret.out)
                /\ WellFormed(Unwrap(ret.out))
                /\ Unwrap(ret.out).width = in.width + 2 * k
                /\ Unwrap(ret.out).height = in.height + 2 * k
                /\ \A p \in Positions(in) :
                        CellAt(Unwrap(ret.out), p[1] + k, p[2] + k) = CellAt(in, p[1], p[2])
                /\ \A q \in Positions(Unwrap(ret.out)) \ Image(in, k, k) :
                        CellAt(Unwrap(ret.out), q[1], q[2]) = Dead

\* C9, witness: a non-square board with an Alive cell in a corner, expanded by 2
C9_Witness ==
    /\ ret.op = "expand_by_layers"
    /\ ret.args[2] = 2
    /\ board.width >= 1 /\ board.height >= 1
    /\ board.width /= board.height
    /\ CellAt(board, board.width - 1, 0) = Alive
    /\ CellAt(Unwrap(ret.out), board.width + 1, 2) = Alive

\* where the input coordinate c of an axis of length old goes on an axis of length
\* target: moved up by floor((target - old) / 2) when the axis grows, down by
\* floor((old - target) / 2) when it shrinks
MovedBy(old, target) ==
    IF target > old THEN (target - old) \div 2 ELSE -((old - target) \div 2)

\* C10: for every grid of size w x h and every target W x H, resize_to returns a
\* grid of exactly W x H, computed independently per axis: where the target is
\* larger, the input coordinate c maps to c + floor((target - old)/2) and every
\* added cell is Dead; where it is smaller, the result coordinate c takes the state
\* of the input coordinate c + floor((old - target)/2) and the input outside that
\* window is discarded.  It never fails, whatever the sizes, 0 included.
C10_ResizeTo ==
    ret.op = "resize_to" =>
        LET in  == ret.args[1]
            W   == ret.args[2]
            H   == ret.args[3]
            out == ret.out
            dx  == MovedBy(in.width, W)
            dy  == MovedBy(in.height, H)
        IN  /\ WellFormed(out)
            /\ out.width = W /\ out.height = H
            /\ \A p \in Positions(in) :
                    <<p[1] + dx, p[2] + dy>> \in Positions(out) =>
                        CellAt(out, p[1] + dx, p[2] + dy) = CellAt(in, p[1], p[2])
            /\ \A q \in Positions(out) \ Image(in, dx, dy) :
                    CellAt(out, q[1], q[2]) = Dead
            /\ board = in

\* C10, witness: a resize that grows the width by an odd number and shrinks the
\* height by an odd number, keeping one Alive cell and discarding another
C10_Witness ==
    /\ ret.op = "resize_to"
    /\ ret.args[2] = board.width + 1
    /\ ret.args[3] = board.height - 1
    /\ board.width >= 1 /\ board.height >= 2
    /\ count_alive_cells(board) = 2
    /\ count_alive_cells(ret.out) = 1
    /\ CellAt(board, 0, 0) = Alive
    /\ CellAt(board, 0, 1) = Alive

-----------------------------------------------------------------------------
(* optimize_size *)

\* the number of cells between the position p and the nearest edge of the board b
EdgeDistance(b, p) ==
    Min(Min(p[1], b.width - 1 - p[1]), Min(p[2], b.height - 1 - p[2]))

\* C7 as stated: whenever optimize_size(grid, margin) returns a grid, that grid is
\* the bounding box of the Alive cells of the input (the minimal rectangle
\* containing all Alive cells) expanded by margin on every side and clipped to the
\* original grid; the result may be non-square.
C7_BoundingBox ==
    (ret.op = "optimize_size" /\ Returned(ret.out)
        /\ AlivePositions(ret.args[1]) /= {}) =>
        LET in     == ret.args[1]
            margin == ret.args[2]
            out    == Unwrap(ret.out)
            alive  == AlivePositions(in)
            min_x  == CHOOSE x \in {p[1] : p \in alive} : \A p \in alive : x <= p[1]
            max_x  == CHOOSE x \in {p[1] : p \in alive} : \A p \in alive : x >= p[1]
            min_y  == CHOOSE y \in {p[2] : p \in alive} : \A p \in alive : y <= p[2]
            max_y  == CHOOSE y \in {p[2] : p \in alive} : \A p \in alive : y >= p[2]
            x0     == Max(min_x - margin, 0)
            x1     == Min(max_x + margin, in.width - 1)
            y0     == Max(min_y - margin, 0)
            y1     == Min(max_y + margin, in.height - 1)
        IN  /\ WellFormed(out)
            /\ out.width = x1 - x0 + 1
            /\ out.height = y1 - y0 + 1
            /\ \A p \in Positions(out) :
                    CellAt(out, p[1], p[2]) = CellAt(in, p[1] + x0, p[2] + y0)

\* C7 as amended: whenever optimize_size(grid, margin) returns a grid, that grid is
\* square, of side min(w, h) - 2k for some k >= 1: it is the input cropped around
\* its centre to the square of side min(w, h), with k outer rings, all of them
\* Dead, removed.  At least margin Dead cells lie between every Alive cell of the
\* result and each edge, and the removal went as far as it can: the side is at
\* most 2*margin + 1, or some Alive cell lies exactly margin cells from an edge.
C7_RingRemoval ==
    (ret.op = "optimize_size" /\ Returned(ret.out)) =>
        LET in     == ret.args[1]
            margin == ret.args[2]
            out    == Unwrap(ret.out)
            side   == Min(in.width, in.height)
            crop_x == (in.width - side) \div 2
            crop_y == (in.height - side) \div 2
            k      == (side - out.width) \div 2
        IN  /\ WellFormed(out)
            /\ out.height = out.width
            /\ out.width < side
            /\ side - out.width = 2 * k
            /\ \A p \in Positions(out) :
                    CellAt(out, p[1], p[2]) = CellAt(in, p[1] + crop_x + k, p[2] + crop_y + k)
            /\ \A x \in crop_x..(crop_x + side - 1), y \in crop_y..(crop_y + side - 1) :
                    (CellAt(in, x, y) = Alive) =>
                        /\ x - crop_x - k \in 0..(out.width - 1)
                        /\ y - crop_y - k \in 0..(out.width - 1)
            /\ \A p \in AlivePositions(out) : EdgeDistance(out, p) >= margin
            /\ \/ out.width <= 2 * margin + 1
               \/ \E p \in AlivePositions(out) : EdgeDistance(out, p) = margin

\* a board wider than high was cropped to its central square, lost a ring, and the
\* grid returned holds an Alive cell at the margin
C7_Witness ==
    /\ ret.op = "optimize_size"
    /\ Returned(ret.out)
    /\ ret.args[1].width > ret.args[1].height
    /\ ret.args[2] >= 1
    /\ \E p \in AlivePositions(Unwrap(ret.out)) :
            EdgeDistance(Unwrap(ret.out), p) = ret.args[2]

\* C8: for every grid and margin, a grid returned by optimize_size has width not
\* greater than the input width and height not greater than the input height, and
\* applying optimize_size with the same margin to that returned grid yields no
\* result.
C8_NeverGrowsIdempotent ==
    /\ (ret.op = "optimize_size" /\ Returned(ret.out)) =>
            /\ Unwrap(ret.out).width <= ret.args[1].width
            /\ Unwrap(ret.out).height <= ret.args[1].height
    /\ (ret.op = "optimize_size" /\ hist /= NoHist) =>
            /\ ret.args = <<Unwrap(hist.first.out), hist.first.args[2]>>
            /\ ret.out = None

\* optimize_size removed two rings of a board that holds an Alive cell, and was
\* applied again to the board it returned
C8_Witness ==
    /\ ret.op = "optimize_size"
    /\ hist /= NoHist
    /\ hist.first.args[1].width >= ret.args[1].width + 4
    /\ hist.first.args[1].height > hist.first.args[1].width
    /\ AlivePositions(ret.args[1]) /= {}

-----------------------------------------------------------------------------
(* auto_expand_if_needed *)

\* some Alive cell of the board b lies within margin cells of an edge
NearEdge(b, margin) ==
    \E p \in AlivePositions(b) :
        \/ p[1] < margin \/ p[1] >= b.width - margin
        \/ p[2] < margin \/ p[2] >= b.height - margin

\* C5: in Dynamic mode, whenever some Alive cell lies within expansion_margin of
\* an edge and the grid has not reached max_board_size (here: is below it on both
\* axes), auto_expand_if_needed returns a grid whose width and height are, on each
\* axis separately, min(current + 2*expansion_layers, max_board_size); it returns
\* no grid only when that target equals the current size on both axes.
C5_TargetIsClippedGrowth ==
    (/\ ret.op = "auto_expand_if_needed"
     /\ ret.args[3].board_size_mode = Dynamic
     /\ NearEdge(ret.args[1], ret.args[2])
     /\ ret.args[1].width < ret.args[3].max_board_size
     /\ ret.args[1].height < ret.args[3].max_board_size) =>
        LET in            == ret.args[1]
            c             == ret.args[3]
            target_width  == Min(in.width + 2 * c.expansion_layers, c.max_board_size)
            target_height == Min(in.height + 2 * c.expansion_layers, c.max_board_size)
        IN  IF target_width = in.width /\ target_height = in.height
            THEN ret.out = None
            ELSE /\ Returned(ret.out)
                 /\ Unwrap(ret.out).width = target_width
                 /\ Unwrap(ret.out).height = target_height

\* C6: auto_expand_if_needed returns no grid whenever board_size_mode is Static,
\* and whenever the grid's width and height already equal max_board_size; every
\* grid it does return has width and height not greater than max_board_size.  Over
\* any sequence of generation steps of the driver, the grid dimensions never change
\* in Static mode and never exceed max_board_size in Dynamic mode when the starting
\* grid did not exceed it.
C6_NeverBeyondMax ==
    /\ ret.op = "auto_expand_if_needed" =>
            LET in == ret.args[1]
                c  == ret.args[3]
            IN  /\ c.board_size_mode = Static => ret.out = None
                /\ (in.width = c.max_board_size /\ in.height = c.max_board_size) =>
                        ret.out = None
                /\ Returned(ret.out) =>
                        /\ Unwrap(ret.out).width <= c.max_board_size
                        /\ Unwrap(ret.out).height <= c.max_board_size
    /\ hist.kind = "expand" =>
            /\ cfg.board_size_mode = Static =>
                    board.width = hist.width /\ board.height = hist.height
            /\ (/\ cfg.board_size_mode = Dynamic
                /\ hist.width <= cfg.max_board_size
                /\ hist.height <= cfg.max_board_size) =>
                    /\ board.width <= cfg.max_board_size
                    /\ board.height <= cfg.max_board_size

\* the driver has grown a board that holds an Alive cell to max_board_size on
\* both axes, and the call made after the next generation returned no grid
C6_Witness ==
    /\ hist.kind = "expand"
    /\ hist.stepped
    /\ cfg.board_size_mode = Dynamic
    /\ board.width = cfg.max_board_size
    /\ board.height = cfg.max_board_size
    /\ hist.width < board.width
    /\ hist.height < board.height
    /\ ret.op = "auto_expand_if_needed"
    /\ ret.args[1] = board
    /\ AlivePositions(board) /= {}
    /\ ret.out = None

-----------------------------------------------------------------------------
(* reset_board *)

\* the board out is the board in resized around the centre to size x size: on
\* each axis a coordinate moves by floor((size - old)/2) when the board grows
\* and by -floor((old - size)/2) when it shrinks, what falls outside is cut and
\* what is added is Dead
CentreResized(in, out, size) ==
    LET dx == MovedBy(in.width, size)
        dy == MovedBy(in.height, size)
    IN  /\ WellFormed(out)
        /\ out.width = size /\ out.height = size
        /\ \A p \in Positions(out) :
                CellAt(out, p[1], p[2]) =
                    IF <<p[1] - dx, p[2] - dy>> \in Positions(in)
                    THEN CellAt(in, p[1] - dx, p[2] - dy)
                    ELSE Dead

\* the size the configuration c asks for: initial_board_size in Dynamic mode,
\* static_board_size in Static mode
ConfiguredSize(c) ==
    IF c.board_size_mode = Dynamic THEN c.initial_board_size ELSE c.static_board_size

\* C1: on a ResetManager on which save_pre_start_state(S) has been called and no
\* reset has happened since, two successive reset_board calls with ever_started =
\* true behave as follows: the first returns S resized around the centre to the
\* configured target size together with the flag false; the second returns an
\* all-Dead grid of the target size together with the flag true and leaves the
\* manager without a snapshot.
C1_TwoStageReset ==
    /\ (hist.kind = "reset" /\ hist.phase = "first") =>
            /\ ret.op = "reset_board"
            /\ CentreResized(board, ret.out[1], ConfiguredSize(ret.args[3]))
            /\ ret.out[2] = FALSE
    /\ (hist.kind = "reset" /\ hist.phase = "second") =>
            /\ ret.op = "reset_board"
            /\ WellFormed(ret.out[1])
            /\ ret.out[1].width = ConfiguredSize(ret.args[3])
            /\ ret.out[1].height = ConfiguredSize(ret.args[3])
            /\ AlivePositions(ret.out[1]) = {}
            /\ ret.out[2] = TRUE
            /\ reset_manager.pre_start_board = None

\* the second reset after a save of a board with an Alive cell, the configured
\* size being another one than the size of the saved board
C1_Witness ==
    /\ hist.kind = "reset"
    /\ hist.phase = "second"
    /\ AlivePositions(board) /= {}
    /\ ConfiguredSize(ret.args[3]) /= board.width
    /\ ret.out[2] = TRUE


\* C11: every grid returned by reset_board, in each of its branches, is square
\* with side equal to the size configured at the time of the call
\* (initial_board_size in Dynamic mode, static_board_size in Static mode), whatever
\* the size of the saved snapshot and of the current grid; a configuration change
\* made between save_pre_start_state and reset_board is reflected in the size of
\* the restored snapshot.
C11_ResetSizeIsConfigured ==
    (hist.kind = "reset" /\ ret.op = "reset_board") =>
        /\ WellFormed(ret.out[1])
        /\ ret.out[1].width = ConfiguredSize(ret.args[3])
        /\ ret.out[1].height = ConfiguredSize(ret.args[3])

\* the snapshot, with an Alive cell, was saved under one board_size_mode and
\* restored under the other, whose size is neither the size configured at the
\* save nor the size of the snapshot
C11_Witness ==
    /\ hist.kind = "reset"
    /\ hist.phase = "first"
    /\ hist.saved_mode /= Some(ret.args[3].board_size_mode)
    /\ ret.args[3].initial_board_size /= ret.args[3].static_board_size
    /\ ConfiguredSize(ret.args[3]) /= board.width
    /\ AlivePositions(board) /= {}
    /\ AlivePositions(ret.out[1]) /= {}

\* C12: reset_board called with ever_started = false returns an all-Dead grid of
\* the target size and the flag false, whatever the manager's state, and it does
\* not remove a snapshot held by the manager.
C12_ResetNeverStarted ==
    [][(hist.kind = "reset" /\ ret'.op = "reset_board" /\ ret'.args[2] = FALSE) =>
            /\ WellFormed(ret'.out[1])
            /\ ret'.out[1].width = ConfiguredSize(ret'.args[3])
            /\ ret'.out[1].height = ConfiguredSize(ret'.args[3])
            /\ AlivePositions(ret'.out[1]) = {}
            /\ ret'.out[2] = FALSE
            /\ reset_manager'.pre_start_board = reset_manager.pre_start_board
      ]_vars

\* reset_board(_, false) was called on a manager that holds a snapshot with an
\* Alive cell, right after a first reset to that snapshot
C12_Witness ==
    /\ hist.kind = "reset"
    /\ ret.op = "reset_board"
    /\ ret.args[2] = FALSE
    /\ reset_manager.pre_start_board = Some(board)
    /\ reset_manager.was_ever_started
    /\ AlivePositions(board) /= {}

-----------------------------------------------------------------------------
(* The drag gesture *)

\* no cell of the board changes from the state from to another state in the step
NoCellLeaves(from) ==
    /\ board'.width = board.width /\ board'.height = board.height
    /\ \A p \in Positions(board) :
            CellAt(board, p[1], p[2]) = from => CellAt(board', p[1], p[2]) = from

\* C2: between a start_drag and the next end_drag, for every sequence of
\* continue_drag calls over any cells: if the drag started on a Dead cell (action
\* CreateCell) every in-bounds cell touched by the gesture is Alive afterwards and
\* no cell of the grid changes from Alive to Dead; if it started on an Alive cell
\* (action KillCell) every touched cell is Dead afterwards and no cell changes from
\* Dead to Alive; the action chosen at start_drag never changes during the gesture.
\* Stated of every call of the gesture: start_drag on an in-bounds cell chooses
\* CreateCell on a Dead cell and KillCell on an Alive one and leaves the cell Alive
\* resp. Dead; every continue_drag that follows keeps the action, leaves the cell
\* it touches, when in bounds, Alive resp. Dead, and takes no cell out of that
\* state.
C2_DragIsMonotonic ==
    [][/\ (ret'.op = "start_drag" /\ <<ret'.args[1], ret'.args[2]>> \in Positions(board)) =>
            LET x      == ret'.args[1]
                y      == ret'.args[2]
                action == IF CellAt(board, x, y) = Dead THEN CreateCell ELSE KillCell
                state  == IF action = CreateCell THEN Alive ELSE Dead
            IN  /\ drag_state'.is_dragging
                /\ drag_state'.drag_action = Some(action)
                /\ hist'.action = Some(action)
                /\ CellAt(board', x, y) = state
                /\ NoCellLeaves(state)
       /\ (ret'.op \in {"continue_drag", "handle_mouse_over"}
                /\ drag_state.is_dragging /\ hist.pure) =>
            LET x      == ret'.args[1]
                y      == ret'.args[2]
                action == Unwrap(hist.action)
                state  == IF action = CreateCell THEN Alive ELSE Dead
            IN  /\ drag_state'.is_dragging
                /\ drag_state'.drag_action = Some(action)
                /\ <<x, y>> \in Positions(board) => CellAt(board', x, y) = state
                /\ NoCellLeaves(state)
      ]_vars

\* a drag that started on a Dead cell has just turned another Dead cell Alive,
\* after it went over a cell past the edge, and a Dead cell is left on the board
C2_Witness ==
    /\ hist.kind = "drag"
    /\ hist.pure
    /\ drag_state.is_dragging
    /\ hist.action = Some(CreateCell)
    /\ ret.op = "continue_drag"
    /\ ret.out = <<TRUE>>
    /\ Cardinality(AlivePositions(board)) >= 3
    /\ Cardinality(AlivePositions(board)) < board.width * board.height

\* C13: start_drag on an in-bounds cell (x,y) sets the drag action to CreateCell
\* if the cell was Dead before the call and to KillCell if it was Alive, flips
\* that cell, records (x,y) as last_cell and leaves the manager in the Dragging
\* state; only that one cell of the grid changes. On an out-of-bounds cell it
\* returns false and changes neither the grid nor the drag state.
C13_StartDrag ==
    [][ret'.op = "start_drag" =>
            LET x == ret'.args[1]
                y == ret'.args[2]
            IN  IF <<x, y>> \in Positions(board)
                THEN /\ drag_state'.drag_action =
                            Some(IF CellAt(board, x, y) = Dead THEN CreateCell ELSE KillCell)
                     /\ drag_state'.last_cell = Some(<<x, y>>)
                     /\ drag_state'.is_dragging
                     /\ CellAt(board', x, y) = (IF CellAt(board, x, y) = Dead THEN Alive ELSE Dead)
                     /\ WellFormed(board')
                     /\ board'.width = board.width
                     /\ board'.height = board.height
                     /\ \A p \in Positions(board) \ {<<x, y>>} :
                            CellAt(board', p[1], p[2]) = CellAt(board, p[1], p[2])
                ELSE /\ ret'.out = <<FALSE>>
                     /\ board' = board
                     /\ drag_state' = drag_state
      ]_vars

\* start_drag on an Alive cell has made it Dead and set KillCell; Alive cells
\* remain elsewhere on the board
C13_Witness ==
    /\ hist.kind = "drag"
    /\ ret.op = "start_drag"
    /\ ret.out = <<TRUE>>
    /\ drag_state.is_dragging
    /\ drag_state.drag_action = Some(KillCell)
    /\ drag_state.last_cell = Some(<<ret.args[1], ret.args[2]>>)
    /\ CellAt(board, ret.args[1], ret.args[2]) = Dead
    /\ Cardinality(AlivePositions(board)) >= 2

\* C14: continue_drag(grid, x, y) is a no-op (returns false, grid unchanged, drag
\* state unchanged) when the manager is not Dragging, and when (x,y) equals
\* last_cell; so a continue_drag that repeats the event of the call before it
\* changes nothing. After end_drag the manager is Idle with action and last_cell
\* cleared.
C14_ContinueDragNoOp ==
    [][/\ (ret'.op = "continue_drag"
                /\ (~drag_state.is_dragging
                        \/ drag_state.last_cell = Some(<<ret'.args[1], ret'.args[2]>>))) =>
            /\ ret'.out = <<FALSE>>
            /\ board' = board
            /\ drag_state' = drag_state
       /\ (ret.op = "continue_drag" /\ ret'.op = "continue_drag" /\ ret'.args = ret.args) =>
            /\ ret'.out = <<FALSE>>
            /\ board' = board
            /\ drag_state' = drag_state
       /\ ret'.op = "end_drag" =>
            /\ ~drag_state'.is_dragging
            /\ drag_state'.drag_action = None
            /\ drag_state'.last_cell = None
      ]_vars

\* continue_drag on the cell the drag is on has just returned false and left
\* that cell Dead although the action is CreateCell (a click had flipped it)
C14_Witness ==
    /\ hist.kind = "drag"
    /\ ret.op = "continue_drag"
    /\ ret.out = <<FALSE>>
    /\ drag_state.is_dragging
    /\ drag_state.drag_action = Some(CreateCell)
    /\ drag_state.last_cell = Some(<<ret.args[1], ret.args[2]>>)
    /\ <<ret.args[1], ret.args[2]>> \in Positions(board)
    /\ CellAt(board, ret.args[1], ret.args[2]) = Dead

\* C15: for every grid and every coordinate pair (x,y), in bounds or not,
\* will_cell_be_born(grid,x,y) is true iff (x,y) is in
\* predict_next_state(grid).birth_cells, and will_cell_die(grid,x,y) is true iff
\* (x,y) is in predict_next_state(grid).death_cells; in particular both return
\* false for every out-of-bounds coordinate.
C15_QueriesAgreeWithPrediction ==
    /\ ret.op = "will_cell_be_born" =>
            /\ ret.out = (<<ret.args[1], ret.args[2]>>
                            \in Range(predict_next_state(board, cfg).birth_cells))
            /\ <<ret.args[1], ret.args[2]>> \notin Positions(board) => ret.out = FALSE
    /\ ret.op = "will_cell_die" =>
            /\ ret.out = (<<ret.args[1], ret.args[2]>>
                            \in Range(predict_next_state(board, cfg).death_cells))
            /\ <<ret.args[1], ret.args[2]>> \notin Positions(board) => ret.out = FALSE

\* an absent result (None); a grid is not one
Absent(out) == DOMAIN out = {}

\* optimize_size has nothing to remove from b: the central square of side
\* min(width, height) is no larger than 2*margin + 1, or one of its Alive cells
\* lies in its outer ring or in the margin rings next to it
Unshrinkable(b, margin) ==
    LET side   == Min(b.width, b.height)
        crop_x == (b.width - side) \div 2
        crop_y == (b.height - side) \div 2
    IN  \/ side <= 2 * margin + 1
        \/ \E p \in AlivePositions(b) :
                /\ p[1] - crop_x \in 0..(side - 1)
                /\ p[2] - crop_y \in 0..(side - 1)
                /\ Min(Min(p[1] - crop_x, side - 1 - (p[1] - crop_x)),
                       Min(p[2] - crop_y, side - 1 - (p[2] - crop_y))) <= margin

Flipped(state) == IF state = Dead THEN Alive ELSE Dead

\* C17: for every grid and every coordinate with x >= width or y >= height:
\* get_cell returns None, set_cell and toggle_cell return false, and the grid (all
\* cells, width, height) is unchanged; for every in-bounds coordinate get_cell
\* returns Some, and set_cell and toggle_cell return true and change no cell other
\* than (x,y).  After any sequence of set/toggle/clear the number of stored cells
\* equals width*height and width and height are unchanged.
C17_BoundsContract ==
    [][/\ ret'.op \in {"get_cell", "set_cell", "toggle_cell"} =>
            LET x == ret'.args[1]
                y == ret'.args[2]
            IN  IF x >= board.width \/ y >= board.height
                THEN /\ ret'.op = "get_cell" => ret'.out = None
                     /\ ret'.op \in {"set_cell", "toggle_cell"} => ret'.out = FALSE
                     /\ board' = board
                ELSE /\ ret'.op = "get_cell" => IsSome(ret'.out) /\ board' = board
                     /\ ret'.op \in {"set_cell", "toggle_cell"} => ret'.out = TRUE
                     /\ \A p \in Positions(board) \ {<<x, y>>} :
                            CellAt(board', p[1], p[2]) = CellAt(board, p[1], p[2])
       /\ Len(board'.cells) = board'.width * board'.height
       /\ board'.width = board.width
       /\ board'.height = board.height
      ]_vars

\* set_cell was called with a coordinate past the edge of a board that holds
\* both Alive and Dead cells: it returned false and the board is as it was
C17_Witness ==
    /\ hist.kind = "grid"
    /\ ret.op = "set_cell"
    /\ <<ret.args[1], ret.args[2]>> \notin Positions(board)
    /\ ret.args[3] = Alive
    /\ ret.out = FALSE
    /\ hist.before = board
    /\ AlivePositions(board) /= {}
    /\ AlivePositions(board) /= Positions(board)

\* C18: for every grid and every in-bounds (x,y): get_cell(x,y) immediately after
\* set_cell(x,y,s) returns s, and two successive toggle_cell(x,y) calls leave the
\* grid identical to the grid before them (a single toggle flips Dead to Alive and
\* Alive to Dead).
C18_SetGetToggleTwice ==
    [][/\ (ret.op = "set_cell" /\ ret'.op = "get_cell"
                /\ ret'.args = <<ret.args[1], ret.args[2]>>
                /\ ret'.args \in Positions(board)) =>
            ret'.out = Some(ret.args[3])
       /\ (ret'.op = "toggle_cell" /\ ret'.args \in Positions(board)) =>
            /\ CellAt(board', ret'.args[1], ret'.args[2]) =
                    Flipped(CellAt(board, ret'.args[1], ret'.args[2]))
            /\ hist'.repeat => board' = hist.before
      ]_vars

\* toggle_cell was called twice in a row on a cell of a board that holds Alive
\* cells, and the board is the one before the first of the two calls
C18_Witness ==
    /\ hist.kind = "grid"
    /\ ret.op = "toggle_cell"
    /\ ret.args \in Positions(board)
    /\ hist.repeat
    /\ CellAt(board, ret.args[1], ret.args[2]) = Alive
    /\ Cardinality(AlivePositions(board)) >= 2
    /\ hist.before /= board

\* the default rules: birth {3}, survival {2,3}
DefaultRules(c) ==
    /\ c.birth_neighbors = [start |-> 3, end |-> 3]
    /\ c.survival_neighbors = [start |-> 2, end |-> 3]

\* C19: under the default rules, a grid whose only Alive cells are three
\* horizontally adjacent cells, with at least one row above and one row below
\* them, becomes after one next_generation the grid whose only Alive cells are the
\* three vertically adjacent cells through the middle cell, and after two
\* next_generation calls is cell-wise identical to the starting grid.
C19_Blinker ==
    (hist.kind = "pattern" /\ DefaultRules(cfg)) =>
        \A x \in 0..(hist.start.width - 3), y \in 1..(hist.start.height - 2) :
            AlivePositions(hist.start) = {<<x, y>>, <<x + 1, y>>, <<x + 2, y>>} =>
                /\ hist.generation = 1 =>
                        /\ WellFormed(board)
                        /\ board.width = hist.start.width
                        /\ board.height = hist.start.height
                        /\ AlivePositions(board) =
                                {<<x + 1, y - 1>>, <<x + 1, y>>, <<x + 1, y + 1>>}
                /\ hist.generation = 2 => board = hist.start

\* two generations were computed from three cells in the middle row of a board
\* of three rows, and the board is the one at the start
C19_Witness ==
    /\ hist.kind = "pattern"
    /\ DefaultRules(cfg)
    /\ hist.generation = 2
    /\ ret.op = "next_generation"
    /\ hist.start.height = 3
    /\ \E x \in 0..(hist.start.width - 3) :
            AlivePositions(hist.start) = {<<x, 1>>, <<x + 1, 1>>, <<x + 2, 1>>}
    /\ AlivePositions(ret.args[1]) /= AlivePositions(board)
    /\ board = hist.start

\* the only Alive cells of b are the four cells of a 2x2 square
IsBlock(b) ==
    \E x \in 0..(b.width - 2), y \in 0..(b.height - 2) :
        AlivePositions(b) = {<<x, y>>, <<x + 1, y>>, <<x, y + 1>>, <<x + 1, y + 1>>}

\* C20: is_stable(grid) is true iff next_generation(grid) is cell-wise identical
\* to grid; in particular, under the default rules a grid whose only Alive cells
\* form a 2x2 block is stable, wherever the block lies in the grid (including
\* against a border or in a corner).
C20_IsStable ==
    ret.op = "is_stable" =>
        LET in == ret.args[1]
        IN  /\ ret.out = (\A p \in Positions(in) :
                            CellAt(next_generation(in, cfg), p[1], p[2]) = CellAt(in, p[1], p[2]))
            /\ ret.out = (\A p \in Positions(in) :
                            (CellAt(in, p[1], p[2]) = Alive)
                                <=> RuleAlive(AlivePositions(in), cfg, p[1], p[2]))
            /\ (DefaultRules(cfg) /\ IsBlock(in)) => ret.out = TRUE

\* is_stable has answered true for a block in the corner of a board of more than
\* two columns and rows, under the default rules
C20_Witness ==
    /\ ret.op = "is_stable"
    /\ ret.out = TRUE
    /\ DefaultRules(cfg)
    /\ board.width > 2
    /\ board.height > 2
    /\ AlivePositions(board) = {<<0, 0>>, <<1, 0>>, <<0, 1>>, <<1, 1>>}

\* C28: whenever auto_expand_if_needed returns a grid, the input's content is
\* re-centred unchanged: with offsets ox = floor((new_width - width)/2) and
\* oy = floor((new_height - height)/2), result cell (x+ox, y+oy) has the state of
\* input cell (x,y), every other cell is Dead and the number of Alive cells is the
\* same; it returns no grid when no Alive cell has x < margin, x >= width - margin,
\* y < margin or y >= height - margin.
C28_ReCentred ==
    ret.op = "auto_expand_if_needed" =>
        LET in     == ret.args[1]
            margin == ret.args[2]
        IN  /\ Returned(ret.out) =>
                    LET out == Unwrap(ret.out)
                        ox  == (out.width - in.width) \div 2
                        oy  == (out.height - in.height) \div 2
                    IN  /\ WellFormed(out)
                        /\ out.width >= in.width
                        /\ out.height >= in.height
                        /\ Image(in, ox, oy) \subseteq Positions(out)
                        /\ \A p \in Positions(out) :
                                CellAt(out, p[1], p[2]) =
                                    IF <<p[1] - ox, p[2] - oy>> \in Positions(in)
                                    THEN CellAt(in, p[1] - ox, p[2] - oy)
                                    ELSE Dead
                        /\ Cardinality(AlivePositions(out)) = Cardinality(AlivePositions(in))
            /\ ~NearEdge(in, margin) => ret.out = None

\* auto_expand_if_needed has returned a larger grid for a board with an Alive
\* cell in its last column, and the cell is no longer in the last column
C28_Witness ==
    /\ ret.op = "auto_expand_if_needed"
    /\ Returned(ret.out)
    /\ Unwrap(ret.out).width > ret.args[1].width
    /\ \E p \in AlivePositions(ret.args[1]) :
            /\ p[1] = ret.args[1].width - 1
            /\ AlivePositions(Unwrap(ret.out)) = {<<p[1] + 1, p[2] + 1>>}

\* C29: whenever optimize_size returns a grid, no Alive cell has been discarded:
\* the result contains the same number of Alive cells as the input, each at its
\* input position shifted by one common offset, for every input grid including
\* non-square ones; and every Alive cell of the result has at least margin Dead
\* cells between it and each edge.
C29_NoAliveCellDiscarded ==
    (ret.op = "optimize_size" /\ Returned(ret.out)) =>
        LET in     == ret.args[1]
            margin == ret.args[2]
            out    == Unwrap(ret.out)
        IN  /\ Cardinality(AlivePositions(out)) = Cardinality(AlivePositions(in))
            /\ \E dx \in 0..in.width, dy \in 0..in.height :
                    AlivePositions(out) =
                        {<<p[1] - dx, p[2] - dy>> : p \in AlivePositions(in)}
            /\ \A p \in AlivePositions(out) : EdgeDistance(out, p) >= margin

\* C30: for every grid of size w x h and every W >= w, H >= h, resizing up and
\* back down is the identity: resize_to(W,H) followed by resize_to(w,h) returns a
\* grid cell-wise identical to the original, for every parity of W-w and H-h; and
\* resize_to(w,h) on a w x h grid returns an identical copy.
C30_ResizeRoundTrip ==
    /\ (ret.op = "resize_to" /\ hist /= NoHist
            /\ hist.first.args[2] >= hist.first.args[1].width
            /\ hist.first.args[3] >= hist.first.args[1].height) =>
            /\ ret.args = <<hist.first.out, hist.first.args[1].width,
                            hist.first.args[1].height>>
            /\ ret.out = hist.first.args[1]
    /\ (ret.op = "resize_to" /\ ret.args[2] = ret.args[1].width
            /\ ret.args[3] = ret.args[1].height) =>
            ret.out = ret.args[1]

\* a board with Alive cells in two opposite corners was widened by an odd number
\* of columns and heightened by an even number of rows, and resized back
C30_Witness ==
    /\ ret.op = "resize_to"
    /\ hist /= NoHist
    /\ (hist.first.args[2] - hist.first.args[1].width) % 2 = 1
    /\ hist.first.args[3] - hist.first.args[1].height = 2
    /\ hist.first.args[1].width > 0
    /\ AlivePositions(hist.first.args[1]) =
            {<<0, 0>>, <<hist.first.args[1].width - 1, hist.first.args[1].height - 1>>}
    /\ ret.out = hist.first.args[1]

-----------------------------------------------------------------------------
(* SpecApp *)

\* C26: between the actions of the driver, ever_started is true exactly when the
\* reset manager holds a snapshot, and exactly when its was_ever_started is true;
\* so reset_board is never entered with ever_started true and no snapshot (its
\* fallback branch).
C26_StartedIffSnapshot ==
    /\ app.ever_started <=> IsSome(reset_manager.pre_start_board)
    /\ app.ever_started <=> reset_manager.was_ever_started

\* started, and the size then changed in Static mode, which saved the snapshot
\* again at a size that is not initial_board_size
C26_Witness ==
    /\ app.ever_started
    /\ IsSome(reset_manager.pre_start_board)
    /\ reset_manager.was_ever_started
    /\ cfg.board_size_mode = Static
    /\ Unwrap(reset_manager.pre_start_board).width = cfg.static_board_size
    /\ cfg.static_board_size /= cfg.initial_board_size
    /\ count_alive_cells(Unwrap(reset_manager.pre_start_board)) > 0

\* hist.trail after a Reset
ResetTrails == {"reset", "reset_first", "reset_rerun", "reset_twice", "reset_first_twice"}

\* the board a Reset is to leave: all Dead, of the size configured for the mode
EmptyConfiguredBoard ==
    Board_new(reset_target_size(cfg), reset_target_size(cfg))

\* C25: from every reachable state of the driver, two Reset actions in a row
\* leave an all-Dead grid of the configured size, ever_started false, no snapshot
\* in the reset manager, the simulation Stopped, the generation counter 0 and the
\* drag state idle; a single Reset always leaves the simulation Stopped, the
\* generation counter 0 and the drag state idle.
C25_TwoResets ==
    /\ hist.trail \in ResetTrails =>
            /\ app.simulation_state = Stopped
            /\ app.generation_count = 0
            /\ drag_state = DragState_default
    /\ hist.trail \in {"reset_twice", "reset_first_twice"} =>
            /\ board = EmptyConfiguredBoard
            /\ ~app.ever_started
            /\ reset_manager.pre_start_board = None

\* two Resets in a row, the first of which returned the snapshot, in Static mode
\* with a static size that is not the initial size
C25_Witness ==
    /\ hist.trail = "reset_first_twice"
    /\ cfg.board_size_mode = Static
    /\ cfg.static_board_size /= cfg.initial_board_size
    /\ board.width = cfg.static_board_size

\* C23: a Start saves the snapshot only when ever_started is false; a Start with
\* ever_started true changes neither the snapshot nor the stage flag of the reset
\* manager, so the Reset that follows a Reset to the snapshot, a Start and
\* generation steps returns an empty grid and not the grid that was started.
C23_StartSavesOnce ==
    /\ [](hist.trail = "reset_rerun" =>
            /\ board = EmptyConfiguredBoard
            /\ ~app.ever_started
            /\ reset_manager.pre_start_board = None)
    /\ [][UserStart =>
            IF app.ever_started
            THEN reset_manager' = reset_manager
            ELSE /\ reset_manager'.pre_start_board = Some(board)
                 /\ ~reset_manager'.last_reset_was_to_pre_start]_vars

\* a Reset that returned the snapshot, a Start on a board with Alive cells,
\* generation steps, and the next Reset
C23_Witness ==
    /\ hist.trail = "reset_rerun"
    /\ board = EmptyConfiguredBoard

\* C22: while Running no edit event changes the grid (pointer records, EditCell,
\* Step and RandomFill are ignored), and the grid of a running simulation
\* changes only by a generation step, or by a Reset or a board-size change, both
\* of which stop the simulation.
C22_NoEditWhileRunning ==
    [][app.simulation_state = Running =>
            /\ hist'.trail = "ignored" => board' = board /\ drag_state' = drag_state
            /\ board' /= board =>
                    \/ Tick
                    \/ /\ UserReset \/ UserBoardSizeChanged
                       /\ app'.simulation_state = Stopped]_vars

\* an edit event arrived while the simulation was Running on a board with an Alive
\* cell
C22_Witness ==
    /\ hist.trail = "ignored"
    /\ app.simulation_state = Running
    /\ count_alive_cells(board) > 0

\* C21: in every state of the driver a cached prediction that is present is the
\* predict_next_state of the current board under the current rules: every step
\* that changes a cell, replaces the board (a generation step, which alone raises
\* the generation counter, a Reset, a size change, which alone changes a
\* configured size, a random fill) or changes the rules discards the cached
\* prediction.
C21_CacheIsCurrent ==
    /\ [](IsSome(app.current_prediction) =>
            Unwrap(app.current_prediction) = predict_next_state(board, cfg))
    /\ [][(\/ board' /= board
           \/ cfg'.birth_neighbors /= cfg.birth_neighbors
           \/ cfg'.survival_neighbors /= cfg.survival_neighbors
           \/ app'.generation_count = app.generation_count + 1
           \/ hist'.trail \in ResetTrails /\ UserReset
           \/ cfg'.initial_board_size /= cfg.initial_board_size
           \/ cfg'.static_board_size /= cfg.static_board_size
           \/ app.simulation_state = Stopped /\ hist'.trail = "none" /\ UserRandomFill) =>
                app'.current_prediction = None]_vars

\* after a Start, a prediction is cached for a board with an Alive cell that dies
\* in the next generation
C21_Witness ==
    /\ IsSome(app.current_prediction)
    /\ count_alive_cells(board) > 0
    /\ Unwrap(app.current_prediction).death_cells /= <<>>
    /\ app.ever_started

\* C24: a board-size change in Static mode after the simulation was started keeps
\* the Alive cells of the snapshot (centre-resized to the new size) and the stage
\* of the next Reset; in particular after the Reset that returned the snapshot it
\* neither replaces the snapshot by an empty grid nor moves the protocol back to
\* its first stage.
C24_SizeChangeKeepsSnapshot ==
    [][(UserBoardSizeChanged /\ app.ever_started /\ cfg.board_size_mode = Static) =>
            /\ reset_manager'.pre_start_board =
                    Some(resize_to_square(Unwrap(reset_manager.pre_start_board),
                                          cfg'.static_board_size))
            /\ reset_manager'.last_reset_was_to_pre_start =
                    reset_manager.last_reset_was_to_pre_start]_vars

\* the record of a press on a cell, and of the release over it with the click
PressOn(cell) ==
    [clicked_cell |-> None, hovered_cell |-> Some(cell), is_mouse_down |-> TRUE,
     mouse_pressed |-> TRUE, mouse_released |-> FALSE]
ReleaseOn(cell) ==
    [clicked_cell |-> Some(cell), hovered_cell |-> Some(cell),
     is_mouse_down |-> FALSE, mouse_pressed |-> FALSE, mouse_released |-> TRUE]
\* the record of a press and a release on a cell within one frame, with the click
TapOn(cell) ==
    [clicked_cell |-> Some(cell), hovered_cell |-> Some(cell),
     is_mouse_down |-> FALSE, mouse_pressed |-> TRUE, mouse_released |-> TRUE]

\* C27: while Stopped with no drag in progress, a press and a release of the
\* pointer on one cell of the board flip that cell exactly once and leave the
\* drag state idle, whether they come in separate MouseInteraction records (the
\* press flips the cell, the release with its click leaves it) or in one record.
C27_TapFlipsOnce ==
    [][\A cell \in Positions(board) :
            /\ (app.simulation_state = Stopped /\ ~drag_state.is_dragging
                    /\ MouseInteraction(TapOn(cell))) =>
                    /\ board' = toggle_cell(board, cell[1], cell[2]).board
                    /\ drag_state' = DragState_default
            /\ (app.simulation_state = Stopped /\ ~drag_state.is_dragging
                    /\ MouseInteraction(PressOn(cell))) =>
                    board' = toggle_cell(board, cell[1], cell[2]).board
            /\ (app.simulation_state = Stopped /\ drag_state.is_dragging
                    /\ drag_state.last_cell = Some(cell)
                    /\ MouseInteraction(ReleaseOn(cell))) =>
                    /\ board' = board
                    /\ drag_state' = DragState_default]_vars

=============================================================================
